---------------------------- MODULE Spec2Model ----------------------------
(***************************************************************************)
(* A model of generate_synthetic_data.py, the synthetic health data        *)
(* generator.  Every random draw of the script is a nondeterministic       *)
(* choice.  The sampling functions are modelled as operators computed the  *)
(* way the code computes them, each exercised by a specification of its    *)
(* own; Spec is the script's top-level flow (patient loop, per-patient     *)
(* files, combined file with retry).                                       *)
(***************************************************************************)
EXTENDS Integers, Sequences, FiniteSets, TLC

VARIABLES
    \* ---- assign_conditions()
    ac_pc,                  \* "idle" | "draw" | "augment" | "done"
    sampled,                \* the list after the ten inclusion draws
    conditions              \* the list assign_conditions returns

acVars == <<ac_pc, sampled, conditions>>

VARIABLES
    \* ---- generate_blood_pressure_readings / generate_glucose_readings
    rd_pc,                  \* "idle" | "start" | "done"
    rd_fn,                  \* "none" | "bp" | "glucose": the function called
    rd_has_condition,       \* the argument has_condition / has_diabetes
    rd_num_readings,        \* the sampled num_readings (0 before sampling)
    bp_result,              \* what generate_blood_pressure_readings returned
    glucose_result          \* what generate_glucose_readings returned

rdVars == <<rd_pc, rd_fn, rd_has_condition, rd_num_readings, bp_result,
            glucose_result>>

VARIABLES
    \* ---- generate_exercise_data()
    ex_pc,                  \* "idle" | "start" | "done"
    num_exercises,          \* the sampled number of exercises (0 before)
    total_minutes,          \* the sampled total for the day (0 before)
    exercise_data           \* the returned slots: Exercise_Type_1..5, ...

exVars == <<ex_pc, num_exercises, total_minutes, exercise_data>>

VARIABLES
    \* ---- assign_medications_by_conditions(conditions, all_medications)
    med_pc,                 \* "idle" | "shuffle" | "pass" | "default" | "done"
    med_conditions,         \* the argument conditions
    parsed_catalog,         \* the catalog as parse_medications_with_dosages left it
    ALL_MEDS_WITH_DOSAGES,  \* the caller's catalog list (all_medications)
    pass_assigned,          \* assigned_meds when the catalog pass ended
    assigned_meds           \* the returned list

medVars == <<med_pc, med_conditions, parsed_catalog, ALL_MEDS_WITH_DOSAGES,
             pass_assigned, assigned_meds>>

VARIABLES
    \* ---- the main script (lines 693-778)
    main_pc,                \* "idle" | "loop" | "generate" | "write" | "combine"
                            \* | "save" | "report" | "done" | "crashed"
    i,                      \* the patient loop's i (0 before the loop)
    patient_id,             \* f"{i:03d}"
    patient_conditions,     \* what assign_conditions() returned for patient i
    day,                    \* dates of date_range done in generate_patient_data
    data,                   \* the rows generate_patient_data has appended
    df,                     \* the DataFrame of patient i
    patient_files,          \* the per-patient files written, in order
    all_patients_df,        \* the combined table
    attempt,                \* save_csv_with_retry's loop variable
    save_log,               \* what save_csv_with_retry did, in order
    success_public,         \* "unset", or what save_csv_with_retry returned
    combined_file           \* the rows of the combined file (<<>> if absent)

mainVars == <<main_pc, i, patient_id, patient_conditions, day, data, df,
              patient_files, all_patients_df, attempt, save_log,
              success_public, combined_file>>

VARIABLES
    \* ---- generate_patient_data(patient_id, conditions, ...)
    gp_pc,                  \* "idle" | "loop" | "done"
    gp_conditions,          \* the argument conditions
    gp_day,                 \* dates of date_range done
    day_data,               \* the blood-pressure and glucose columns of the
                            \* day_data compiled last
    gp_bp_num_readings,     \* num_readings of that day's blood-pressure call
    gp_glucose_num_readings \* num_readings of that day's glucose call
                            \* (0 when the call returned before sampling)

gpVars == <<gp_pc, gp_conditions, gp_day, day_data, gp_bp_num_readings,
            gp_glucose_num_readings>>

VARIABLES
    \* ---- the meal times of generate_patient_data (lines 548-568)
    meal_pc,                \* "idle" | "breakfast" | "lunch" | "dinner"
                            \* | "late_snack" | "done"
    breakfast_time,         \* f"{breakfast_hour:02d}:{breakfast_minute:02d}"
    lunch_time,
    dinner_time,
    late_snack_time

mlVars == <<meal_pc, breakfast_time, lunch_time, dinner_time, late_snack_time>>

VARIABLES
    \* ---- generate_measurement_timestamps_with_spacing(num_readings)
    ts_pc,                  \* "idle" | "start" | "for" | "while" | "done"
    ts_num_readings,        \* the argument num_readings
    ts_i,                   \* iterations of `for i in range(num_readings)` done
    attempts,               \* the while loop's counter
    ts_hour,                \* hour and minute of the candidate drawn last
    ts_minute,
    used_times,             \* minutes since midnight of the accepted times
    ts_timestamps,          \* the list timestamps
    ts_drawn,               \* history: candidates drawn for each reading
    ts_via                  \* history: "check" or "fallback" for each timestamp

tsVars == <<ts_pc, ts_num_readings, ts_i, attempts, ts_hour, ts_minute,
            used_times, ts_timestamps, ts_drawn, ts_via>>

VARIABLES
    \* ---- parse_medications_with_dosages(filename)
    ps_pc,                  \* "idle" | "while" | "last" | "done"
    lines,                  \* f.readlines(): each line a sequence of characters
    ps_i,                   \* the while loop's i
    current_medication,     \* None is modelled as the value None
    current_type,
    current_category,
    current_dose,
    all_medications         \* the list returned

psVars == <<ps_pc, lines, ps_i, current_medication, current_type,
            current_category, current_dose, all_medications>>

vars == <<acVars, rdVars, exVars, medVars, mainVars, gpVars, mlVars, tsVars,
          psVars>>

(***************************************************************************)
(* Helpers on lists                                                        *)
(***************************************************************************)
InSeq(x, s) == \E k \in 1..Len(s) : s[k] = x

NoDuplicates(s) == \A a, b \in 1..Len(s) : s[a] = s[b] => a = b

SeqToSet(s) == {s[k] : k \in 1..Len(s)}

Min(a, b) == IF a <= b THEN a ELSE b

Max(a, b) == IF a >= b THEN a ELSE b

(***************************************************************************)
(* assign_conditions  (src lines 241-290)                                  *)
(***************************************************************************)
\* The ten condition labels, in the order of the ten inclusion draws.
ConditionVocabulary ==
    << "Hypertension", "Periodontal disease", "Osteoarthritis",
       "Ischemic heart disease", "Diabetes", "Osteoporosis", "Cancer",
       "COPD", "Asthma", "Mood and/or anxiety disorder" >>

\* The outcomes of the ten `random.random() < p` tests.
InclusionDraws == [1..Len(ConditionVocabulary) -> BOOLEAN]

\* conditions after the ten `if random.random() < p: conditions.append(..)`.
RECURSIVE SampleFrom(_, _)
SampleFrom(draws, k) ==
    IF k > Len(ConditionVocabulary) THEN <<>>
    ELSE (IF draws[k] THEN <<ConditionVocabulary[k]>> ELSE <<>>)
         \o SampleFrom(draws, k + 1)

SampleConditions(draws) == SampleFrom(draws, 1)

\* The population of random.sample(..., 2) in the zero-condition branch.
zero_pool == << "Hypertension", "Osteoarthritis", "Diabetes", "Osteoporosis" >>

\* additional_conditions of the one-condition branch.
additional_conditions ==
    << "Hypertension", "Diabetes", "Osteoarthritis", "Osteoporosis",
       "Mood and/or anxiety disorder", "Ischemic heart disease" >>

\* common_conditions of the final force-add block.
common_conditions == << "Hypertension", "Osteoarthritis", "Diabetes" >>

\* A plausible slip: the already-assigned condition is not removed.
available_conditions_unfiltered(conds) == additional_conditions

\* available_conditions = [c for c in additional_conditions if c not in conditions]
available_conditions(conds) ==
    SelectSeq(additional_conditions, LAMBDA c : ~InSeq(c, conds))

\* The final block: while fewer than 2, append common conditions not present.
RECURSIVE ForceFrom(_, _)
ForceFrom(conds, k) ==
    IF k > Len(common_conditions) THEN conds
    ELSE IF ~InSeq(common_conditions[k], conds)
         THEN LET c2 == Append(conds, common_conditions[k])
              IN  IF Len(c2) >= 2 THEN c2 ELSE ForceFrom(c2, k + 1)
         ELSE ForceFrom(conds, k + 1)

ForceCommon(conds) == IF Len(conds) < 2 THEN ForceFrom(conds, 1) ELSE conds

\* A plausible slip: random.choices(..., k=2) in the zero-condition branch,
\* a draw with replacement.
Augment_with_replacement(conds) ==
    IF Len(conds) = 0
    THEN { ForceCommon(<< zero_pool[a], zero_pool[b] >>) :
             <<a, b>> \in (1..Len(zero_pool)) \X (1..Len(zero_pool)) }
    ELSE IF Len(conds) = 1
    THEN LET av == available_conditions(conds)
         IN  IF Len(av) > 0
             THEN { ForceCommon(Append(conds, av[k])) : k \in 1..Len(av) }
             ELSE { ForceCommon(conds) }
    ELSE { ForceCommon(conds) }

\* Every list the code after the ten draws can turn `conds` into:
\* random.sample(zero_pool, 2) is an ordered pair of distinct positions,
\* random.choice(available_conditions) is any one member.
Augment(conds) ==
    IF Len(conds) = 0
    THEN { ForceCommon(<< zero_pool[a], zero_pool[b] >>) :
             <<a, b>> \in { p \in (1..Len(zero_pool)) \X (1..Len(zero_pool)) :
                            p[1] # p[2] } }
    ELSE IF Len(conds) = 1
    THEN LET av == available_conditions(conds)
         IN  IF Len(av) > 0
             THEN { ForceCommon(Append(conds, av[k])) : k \in 1..Len(av) }
             ELSE { ForceCommon(conds) }
    ELSE { ForceCommon(conds) }

\* Every list assign_conditions() can return.
AssignConditionsResults ==
    UNION { Augment(SampleConditions(dr)) : dr \in InclusionDraws }

(***************************************************************************)
(* Timestamps "HH:MM"  (src lines 375-424, 409, 417, 420-422)              *)
(***************************************************************************)
Digits == << "0", "1", "2", "3", "4", "5", "6", "7", "8", "9" >>

\* f"{n:02d}" for 0 <= n <= 99: two characters, zero padded.
Format02d(n) == << Digits[(n \div 10) + 1], Digits[(n % 10) + 1] >>

\* f"{hour:02d}:{minute:02d}", a string as the sequence of its characters;
\* the empty string "" is <<>>.
FormatTime(hour, minute) == Format02d(hour) \o << ":" >> \o Format02d(minute)

\* while len(timestamps) < 4: timestamps.append("")
RECURSIVE PadTimestamps(_)
PadTimestamps(ts) == IF Len(ts) < 4 THEN PadTimestamps(Append(ts, <<>>)) ELSE ts

\* The lists generate_measurement_timestamps_with_spacing(num_readings) can
\* return when every candidate time is drawn from `times` (pairs
\* <<hour, minute>>): four empty strings for 0 readings, otherwise one
\* formatted time per reading (accepted, or the last candidate of an exhausted
\* reading, so any time can follow any other), padded to 4.
TimestampResults(num_readings, times) ==
    IF num_readings = 0 THEN { << <<>>, <<>>, <<>>, <<>> >> }
    ELSE { PadTimestamps([k \in 1..num_readings |-> FormatTime(f[k][1], f[k][2])]) :
             f \in [1..num_readings -> times] }

(***************************************************************************)
(* Blood pressure  (src lines 353-373, 443-486)                            *)
(***************************************************************************)
\* A plausible slip: the band edge 120 moved into the pre-high band.
systolic_type_strict(systolic) ==
    IF systolic < 90 THEN "Low blood pressure"
    ELSE IF 90 <= systolic /\ systolic < 120 THEN "Ideal"
    ELSE IF 120 <= systolic /\ systolic <= 140 THEN "Pre-high blood pressure"
    ELSE "High blood pressure"

systolic_type(systolic) ==
    IF systolic < 90 THEN "Low blood pressure"
    ELSE IF 90 <= systolic /\ systolic <= 120 THEN "Ideal"
    ELSE IF 120 < systolic /\ systolic <= 140 THEN "Pre-high blood pressure"
    ELSE "High blood pressure"

diastolic_type(diastolic) ==
    IF diastolic < 60 THEN "Low blood pressure"
    ELSE IF 60 <= diastolic /\ diastolic <= 80 THEN "Ideal"
    ELSE IF 80 < diastolic /\ diastolic <= 90 THEN "Pre-high blood pressure"
    ELSE "High blood pressure"

get_bp_type(systolic, diastolic) ==
    << systolic_type(systolic), diastolic_type(diastolic) >>

\* A plausible slip: the cap is dropped, only the "final validation" is left.
stored_diastolic_uncapped(systolic, diastolic_draw) ==
    IF diastolic_draw >= systolic THEN Max(40, systolic - 10) ELSE diastolic_draw

\* Lines 466-472: diastolic = min(draw, systolic - 10), then the final
\* validation `if diastolic >= systolic: diastolic = max(40, systolic - 10)`.
stored_diastolic(systolic, diastolic_draw) ==
    LET max_diastolic == systolic - 10
        diastolic     == Min(diastolic_draw, max_diastolic)
    IN  IF diastolic >= systolic THEN Max(40, systolic - 10) ELSE diastolic

\* A plausible slip: `if i <= num_readings`, one slot too many is filled.
bp_slot_inclusive(idx, num_readings, systolic_draw, diastolic_draw) ==
    IF idx <= num_readings
    THEN LET systolic  == systolic_draw
             diastolic == stored_diastolic(systolic, diastolic_draw)
             types     == get_bp_type(systolic, diastolic)
         IN  [systolic |-> systolic, diastolic |-> diastolic,
              systolic_type |-> types[1], diastolic_type |-> types[2]]
    ELSE [systolic |-> 0, diastolic |-> 0,
          systolic_type |-> "", diastolic_type |-> ""]

\* One iteration of `for i in range(4)` (lines 459-484): the values appended
\* for i = idx, given the integers int(random.normalvariate(..)) gave.
bp_slot(idx, num_readings, systolic_draw, diastolic_draw) ==
    IF idx < num_readings
    THEN LET systolic  == systolic_draw
             diastolic == stored_diastolic(systolic, diastolic_draw)
             types     == get_bp_type(systolic, diastolic)
         IN  [systolic |-> systolic, diastolic |-> diastolic,
              systolic_type |-> types[1], diastolic_type |-> types[2]]
    ELSE [systolic |-> 0, diastolic |-> 0,
          systolic_type |-> "", diastolic_type |-> ""]

\* generate_blood_pressure_readings(has_condition) for the sampled
\* num_readings, the timestamps list and draws[k] = <<systolic, diastolic>>.
generate_blood_pressure_readings(has_condition, num_readings, timestamps, draws) ==
    IF ~has_condition
    THEN [systolic_readings  |-> <<0, 0, 0, 0>>,
          diastolic_readings |-> <<0, 0, 0, 0>>,
          systolic_types     |-> <<"", "", "", "">>,
          diastolic_types    |-> <<"", "", "", "">>,
          timestamps         |-> << <<>>, <<>>, <<>>, <<>> >>]
    ELSE LET slot(k) == IF k <= num_readings
                        THEN bp_slot(k - 1, num_readings, draws[k][1], draws[k][2])
                        ELSE bp_slot(k - 1, num_readings, 0, 0)
         IN  [systolic_readings  |-> [k \in 1..4 |-> slot(k).systolic],
              diastolic_readings |-> [k \in 1..4 |-> slot(k).diastolic],
              systolic_types     |-> [k \in 1..4 |-> slot(k).systolic_type],
              diastolic_types    |-> [k \in 1..4 |-> slot(k).diastolic_type],
              timestamps         |-> timestamps]

(***************************************************************************)
(* Glucose  (src lines 426-441, 488-524).  A drawn value is in hundredths  *)
(* of a mmol/L, a stored value in tenths.                                  *)
(***************************************************************************)
\* np.clip(x, lo, hi)
Clip(x, lo, hi) == IF x < lo THEN lo ELSE IF x > hi THEN hi ELSE x

\* round(x, 1) of a non-negative value given in hundredths, as tenths
\* (numpy rounds half to even).
RoundTenths(h) ==
    LET q == h \div 10
        r == h % 10
    IN  IF r < 5 THEN q
        ELSE IF r > 5 THEN q + 1
        ELSE IF q % 2 = 0 THEN q ELSE q + 1

\* get_glucose_range(glucose, measurement_type), glucose in tenths.
get_glucose_range(glucose, measurement_type) ==
    IF measurement_type = "Pre meal"
    THEN IF glucose < 40 THEN "below range"
         ELSE IF 40 <= glucose /\ glucose <= 70 THEN "in range"
         ELSE "above range"
    ELSE IF glucose < 50 THEN "below range"
         ELSE IF 50 <= glucose /\ glucose <= 100 THEN "in range"
         ELSE "above range"

\* One iteration of `for i in range(4)` (lines 503-522).
glucose_slot(idx, num_readings, measurement_type, draw) ==
    IF idx < num_readings
    THEN LET glucose == IF measurement_type = "Pre meal"
                        THEN RoundTenths(Clip(draw, 300, 900))
                        ELSE RoundTenths(Clip(draw, 400, 1200))
         IN  [glucose |-> glucose, measurement_type |-> measurement_type,
              glucose_range |-> get_glucose_range(glucose, measurement_type)]
    ELSE [glucose |-> 0, measurement_type |-> "", glucose_range |-> ""]

\* generate_glucose_readings(has_diabetes) for the sampled num_readings, the
\* timestamps list and draws[k] = <<measurement type, drawn value>>.
generate_glucose_readings(has_diabetes, num_readings, timestamps, draws) ==
    IF ~has_diabetes
    THEN [glucose_readings  |-> <<0, 0, 0, 0>>,
          measurement_types |-> <<"", "", "", "">>,
          glucose_ranges    |-> <<"", "", "", "">>,
          timestamps        |-> << <<>>, <<>>, <<>>, <<>> >>]
    ELSE LET slot(k) == IF k <= num_readings
                        THEN glucose_slot(k - 1, num_readings, draws[k][1], draws[k][2])
                        ELSE glucose_slot(k - 1, num_readings, "", 0)
         IN  [glucose_readings  |-> [k \in 1..4 |-> slot(k).glucose],
              measurement_types |-> [k \in 1..4 |-> slot(k).measurement_type],
              glucose_ranges    |-> [k \in 1..4 |-> slot(k).glucose_range],
              timestamps        |-> timestamps]

\* np.random.choice([1, 2, 3, 4], p=...)
ReadingCounts == {1, 2, 3, 4}

\* random.choice(["Pre meal", "2-hour post meal"])
MeasurementTypes == {"Pre meal", "2-hour post meal"}

\* The pairs <<systolic, diastolic>> the two int(random.normalvariate(..))
\* draws of a reading are taken from: both sides of every band edge of either
\* limb, and pairs whose diastolic draw exceeds systolic - 10.
BPDraws ==
    { <<89, 59>>, <<90, 60>>, <<120, 80>>, <<121, 81>>, <<140, 90>>,
      <<141, 91>>, <<89, 80>>, <<90, 91>>, <<100, 95>>, <<45, 40>>,
      <<141, 135>>, <<60, 59>> }

\* The pairs <<measurement type, drawn value in hundredths>> of a glucose
\* reading: values that clip at either end, both sides of every threshold
\* after rounding, and ties of the rounding.
GlucoseDraws ==
    { <<"Pre meal", 250>>, <<"Pre meal", 394>>, <<"Pre meal", 396>>,
      <<"Pre meal", 705>>, <<"Pre meal", 706>>, <<"Pre meal", 1300>>,
      <<"2-hour post meal", 250>>, <<"2-hour post meal", 494>>,
      <<"2-hour post meal", 496>>, <<"2-hour post meal", 1005>>,
      <<"2-hour post meal", 1006>>, <<"2-hour post meal", 1300>> }

\* The candidate times of the readings' specification.
ReadingTimes == { <<7, 5>> }

NoBP == [systolic_readings |-> <<>>, diastolic_readings |-> <<>>,
         systolic_types |-> <<>>, diastolic_types |-> <<>>, timestamps |-> <<>>]

NoGlucose == [glucose_readings |-> <<>>, measurement_types |-> <<>>,
              glucose_ranges |-> <<>>, timestamps |-> <<>>]

rdIdle ==
    /\ rd_pc = "idle" /\ rd_fn = "none" /\ rd_has_condition = FALSE
    /\ rd_num_readings = 0 /\ bp_result = NoBP /\ glucose_result = NoGlucose

(***************************************************************************)
(* generate_exercise_data  (src lines 176-218, 227)                        *)
(***************************************************************************)
EXERCISE_TYPES ==
    << "walking", "swimming", "running", "biking", "muscle-strengthening",
       "balance", "other" >>

\* The model samples from the first NumExerciseTypes exercise types.
NumExerciseTypes == 5

ExercisePopulation ==
    SubSeq(EXERCISE_TYPES, 1, Min(NumExerciseTypes, Len(EXERCISE_TYPES)))

\* random.randint(5, 29); the model draws totals up to MaxTotalDrawn.
TotalMinutesLow == 5

TotalMinutesHigh == 29

MaxTotalDrawn == 6

TotalDraws == TotalMinutesLow..Min(MaxTotalDrawn, TotalMinutesHigh)

\* np.random.choice([1, 2, 3, 4, 5], p=exercise_probs)
ExerciseCounts == {1, 2, 3, 4, 5}

\* random.sample(EXERCISE_TYPES, n): n distinct positions, in any order.
ExerciseSamples(n) ==
    { [k \in 1..n |-> ExercisePopulation[f[k]]] :
        f \in { g \in [1..n -> 1..Len(ExercisePopulation)] :
                  \A a, b \in 1..n : g[a] = g[b] => a = b } }

\* sorted(list): insertion sort.
RECURSIVE InsertSorted(_, _)
InsertSorted(x, s) ==
    IF s = <<>> THEN <<x>>
    ELSE IF x <= Head(s) THEN <<x>> \o s
    ELSE <<Head(s)>> \o InsertSorted(x, Tail(s))

RECURSIVE Sorted(_)
Sorted(s) == IF s = <<>> THEN <<>> ELSE InsertSorted(Head(s), Sorted(Tail(s)))

\* A plausible slip: the closing partition point is one minute short.
exercise_minutes_short(n, total, points) ==
    IF n = 1 THEN << total >>
    ELSE LET splits == <<0>> \o Sorted(points) \o << total - 1 >>
         IN  [k \in 1..n |-> splits[k + 1] - splits[k]]

\* Lines 191-197: points[k] are the n-1 draws random.randint(1, total-1).
exercise_minutes(n, total, points) ==
    IF n = 1 THEN << total >>
    ELSE LET splits == <<0>> \o Sorted(points) \o << total >>
         IN  [k \in 1..n |-> splits[k + 1] - splits[k]]

\* Lines 200-216: the five fixed slots.
build_exercise_data(selected_exercises, minutes) ==
    [Exercise_Type     |-> [k \in 1..5 |-> IF Len(selected_exercises) > k - 1
                                           THEN selected_exercises[k] ELSE ""],
     Exercise_Minutes  |-> [k \in 1..5 |-> IF Len(selected_exercises) > k - 1
                                           THEN minutes[k] ELSE 0],
     Exercise_Category |-> [k \in 1..5 |-> IF Len(selected_exercises) > k - 1
                                           THEN selected_exercises[k] ELSE ""]]

NoExercise == [Exercise_Type |-> <<>>, Exercise_Minutes |-> <<>>,
               Exercise_Category |-> <<>>]

exIdle ==
    /\ ex_pc = "idle" /\ num_exercises = 0 /\ total_minutes = 0
    /\ exercise_data = NoExercise

(***************************************************************************)
(* assign_medications_by_conditions  (src lines 137-144, 292-351)          *)
(* A medication is the tuple <<med, med_type, category, dosage>>.          *)
(***************************************************************************)
MEDICATION_CATEGORIES ==
    << "Heart health and hypertension", "Diabetes (oral or injectable)",
       "Chronic pain and musculoskeletal", "Mental health (mood and anxiety)",
       "Vitamins and supplements", "Other" >>

\* `needle in category` for a category of MEDICATION_CATEGORIES: the
\* categories of which each needle of lines 318-330 is a substring.
SubstringOf(needle, category) ==
    CASE needle = "Heart health and hypertension" ->
            category = "Heart health and hypertension"
      [] needle = "Diabetes" -> category = "Diabetes (oral or injectable)"
      [] needle = "Chronic pain and musculoskeletal" ->
            category = "Chronic pain and musculoskeletal"
      [] needle = "Mental health" -> category = "Mental health (mood and anxiety)"
      [] needle = "Other" -> category = "Other"
      [] needle = "Vitamins and supplements" -> category = "Vitamins and supplements"

\* Lines 296-304: the has_* flags.
condition_flags(conds) ==
    [has_hypertension  |-> InSeq("Hypertension", conds)
                           \/ InSeq("Ischemic heart disease", conds),
     has_diabetes      |-> InSeq("Diabetes", conds),
     has_pain          |-> InSeq("Osteoarthritis", conds)
                           \/ InSeq("Osteoporosis", conds),
     has_mood_disorder |-> InSeq("Mood and/or anxiety disorder", conds),
     has_respiratory   |-> InSeq("COPD", conds) \/ InSeq("Asthma", conds),
     has_cancer        |-> InSeq("Cancer", conds)]

\* The values of random.random() as far as lines 327-331 tell them apart,
\* in thousandths: below 0.6, between 0.6 and 0.7, from 0.7 on.
RandomDraws == {300, 650, 800}

\* The draws made for one medication: p is the value drawn in the if/elif
\* chain, keep the outcome of `random.random() < 0.9`.  A failed retention
\* test skips the medication whatever p was, so one p stands for all.
PassDraws ==
    { [p |-> r, keep |-> TRUE] : r \in RandomDraws }
        \cup { [p |-> 300, keep |-> FALSE] }

\* A plausible slip: the cancer branch tested before the respiratory one.
should_assign_cancer_first(category, flags, r) ==
    IF SubstringOf("Heart health and hypertension", category)
       /\ flags.has_hypertension THEN TRUE
    ELSE IF SubstringOf("Diabetes", category) /\ flags.has_diabetes THEN TRUE
    ELSE IF SubstringOf("Chronic pain and musculoskeletal", category)
            /\ flags.has_pain THEN TRUE
    ELSE IF SubstringOf("Mental health", category) /\ flags.has_mood_disorder
         THEN TRUE
    ELSE IF flags.has_cancer /\ (SubstringOf("Other", category)
                                 \/ SubstringOf("Vitamins and supplements", category))
         THEN r < 700
    ELSE IF flags.has_respiratory /\ SubstringOf("Other", category) THEN r < 600
    ELSE IF SubstringOf("Vitamins and supplements", category) THEN r < 700
    ELSE FALSE

\* Lines 315-331: should_assign after the if/elif chain; r is the value of
\* the random.random() of the branch taken, in thousandths.
should_assign(category, flags, r) ==
    IF SubstringOf("Heart health and hypertension", category)
       /\ flags.has_hypertension THEN TRUE
    ELSE IF SubstringOf("Diabetes", category) /\ flags.has_diabetes THEN TRUE
    ELSE IF SubstringOf("Chronic pain and musculoskeletal", category)
            /\ flags.has_pain THEN TRUE
    ELSE IF SubstringOf("Mental health", category) /\ flags.has_mood_disorder
         THEN TRUE
    ELSE IF flags.has_respiratory /\ SubstringOf("Other", category) THEN r < 600
    ELSE IF flags.has_cancer /\ (SubstringOf("Other", category)
                                 \/ SubstringOf("Vitamins and supplements", category))
         THEN r < 700
    ELSE IF SubstringOf("Vitamins and supplements", category) THEN r < 700
    ELSE FALSE

\* A plausible slip: the cap test lets a third medication through.
category_full_late(count) == count > 2

\* Line 312: category_counts.get(category, 0) >= 2
category_full(count) == count >= 2

\* Lines 310-336 from catalog position k on.  draws[k].p is the value drawn
\* in the if/elif chain for the k-th medication, draws[k].keep the outcome of
\* its `random.random() < 0.9` test;
\* counts is category_counts (0 for an absent key).
RECURSIVE PassFrom(_, _, _, _, _, _)
PassFrom(catalog, flags, draws, k, assigned, counts) ==
    IF k > Len(catalog) THEN assigned
    ELSE LET category == catalog[k][3]
         IN  IF category_full(counts[category])
             THEN PassFrom(catalog, flags, draws, k + 1, assigned, counts)
             ELSE IF should_assign(category, flags, draws[k].p) /\ draws[k].keep
                  THEN PassFrom(catalog, flags, draws, k + 1,
                                Append(assigned, catalog[k]),
                                [counts EXCEPT ![category] = @ + 1])
                  ELSE PassFrom(catalog, flags, draws, k + 1, assigned, counts)

catalog_pass(conds, catalog, draws) ==
    PassFrom(catalog, condition_flags(conds), draws, 1, <<>>,
             [c \in SeqToSet(MEDICATION_CATEGORIES) |-> 0])

\* A plausible slip: the diabetes default tested before the hypertension one.
default_medication_diabetes_first(conds) ==
    LET flags == condition_flags(conds)
    IN  IF flags.has_diabetes
        THEN << "Metformin", "Prescribed", "Diabetes (oral or injectable)",
                "500 mg twice daily" >>
        ELSE IF flags.has_hypertension
        THEN << "Lisinopril", "Prescribed", "Heart health and hypertension",
                "10 mg once daily" >>
        ELSE << "Vitamin D", "Supplement", "Vitamins and supplements",
                "1000 IU once daily" >>

\* Lines 340-349: the default medication by condition priority.
default_medication(conds) ==
    LET flags == condition_flags(conds)
    IN  IF flags.has_hypertension
        THEN << "Lisinopril", "Prescribed", "Heart health and hypertension",
                "10 mg once daily" >>
        ELSE IF flags.has_diabetes
        THEN << "Metformin", "Prescribed", "Diabetes (oral or injectable)",
                "500 mg twice daily" >>
        ELSE IF flags.has_pain
        THEN << "Ibuprofen", "Prescribed", "Chronic pain and musculoskeletal",
                "400 mg as needed" >>
        ELSE IF flags.has_mood_disorder
        THEN << "Sertraline", "Prescribed", "Mental health (mood and anxiety)",
                "50 mg once daily" >>
        ELSE << "Vitamin D", "Supplement", "Vitamins and supplements",
                "1000 IU once daily" >>

\* Lines 339-351: `if not assigned_meds: assigned_meds.append(default)`.
with_default(conds, assigned) ==
    IF Len(assigned) = 0 THEN << default_medication(conds) >> ELSE assigned

\* The orders random.shuffle(all_medications) can leave the list in.
Shuffles(list) ==
    { [k \in 1..Len(list) |-> list[f[k]]] :
        f \in { g \in [1..Len(list) -> 1..Len(list)] :
                  \A a, b \in 1..Len(list) : g[a] = g[b] => a = b } }

\* The catalogs of the model: one medication per name of MedicationNames,
\* each of any category, listed by category.
MedicationNames == << "Med A", "Med B", "Med C" >>

Catalogs ==
    { [k \in 1..Len(MedicationNames) |->
          << MedicationNames[k], "Prescribed", MEDICATION_CATEGORIES[f[k]],
             "1 tablet daily" >>] :
        f \in { g \in [1..Len(MedicationNames) -> 1..Len(MEDICATION_CATEGORIES)] :
                  \A a, b \in 1..Len(MedicationNames) : a <= b => g[a] <= g[b] } }

\* The condition lists of the model: at most MaxConditionCount conditions.
MaxConditionCount == 2

ConditionLists ==
    { SampleConditions(dr) :
        dr \in { g \in InclusionDraws :
                   Cardinality({k \in DOMAIN g : g[k]}) <= MaxConditionCount } }

medIdle ==
    /\ med_pc = "idle" /\ med_conditions = <<>> /\ parsed_catalog = <<>>
    /\ ALL_MEDS_WITH_DOSAGES = <<>> /\ pass_assigned = <<>>
    /\ assigned_meds = <<>>

(***************************************************************************)
(* The main script  (src lines 236-238, 693-778).  A date is the proleptic *)
(* Gregorian ordinal of the day (datetime arithmetic); strftime('%Y-%m-%d')*)
(* maps ordinals to strings one to one and in order.  A row of a table is  *)
(* modelled by its Date and, in the combined table, its Patient_ID.        *)
(***************************************************************************)
IsLeap(y) == (y % 4 = 0) /\ ((y % 100 # 0) \/ (y % 400 = 0))

DaysInMonth(y, m) ==
    IF m = 2 THEN (IF IsLeap(y) THEN 29 ELSE 28)
    ELSE IF m \in {4, 6, 9, 11} THEN 30 ELSE 31

RECURSIVE DaysBeforeMonth(_, _)
DaysBeforeMonth(y, m) ==
    IF m = 1 THEN 0 ELSE DaysBeforeMonth(y, m - 1) + DaysInMonth(y, m - 1)

\* datetime(y, m, dd) as an ordinal (0001-01-01 is day 1).
DateOrdinal(y, m, dd) ==
    LET p == y - 1
    IN  p * 365 + (p \div 4) - (p \div 100) + (p \div 400)
        + DaysBeforeMonth(y, m) + dd

\* start_date = datetime(2024, 7, 1)
start_date == DateOrdinal(2024, 7, 1)

\* The reference period ends on datetime(2025, 7, 31); the model's period
\* is its first NumDays days.
reference_end_date == DateOrdinal(2025, 7, 31)

NumDays == 3

end_date == Min(start_date + NumDays - 1, reference_end_date)

\* A plausible slip: range((end_date - start_date).days), the end excluded.
date_range_exclusive ==
    [k \in 1..(end_date - start_date) |-> start_date + (k - 1)]

\* date_range = [start_date + timedelta(days=i) for i in range(days + 1)]
date_range ==
    [k \in 1..((end_date - start_date) + 1) |-> start_date + (k - 1)]

\* for i in range(1, 101): the model generates the first NumPatients patients.
PatientCount == 100

NumPatients == 3

LastPatient == Min(NumPatients, PatientCount)

\* f"{i:03d}" for 0 <= i <= 999
Format03d(n) ==
    << Digits[(n \div 100) + 1], Digits[((n \div 10) % 10) + 1],
       Digits[(n % 10) + 1] >>

\* df.insert(0, 'Patient_ID', patient_id)
InsertPatientId(rows, pid) ==
    [k \in 1..Len(rows) |-> [Patient_ID |-> pid, Date |-> rows[k].Date]]

\* save_csv_with_retry(df, filepath, max_retries=3)
max_retries == 3

\* A plausible slip: the last attempt is not told apart, so a third
\* permission error also waits and the loop runs out.
may_retry_always(a) == a < max_retries

\* Line 759: if attempt < max_retries - 1
may_retry(a) == a < max_retries - 1

mainIdle ==
    /\ main_pc = "idle" /\ i = 0 /\ patient_id = <<>>
    /\ patient_conditions = <<>> /\ day = 0 /\ data = <<>> /\ df = <<>>
    /\ patient_files = <<>> /\ all_patients_df = <<>> /\ attempt = 0
    /\ save_log = <<>> /\ success_public = "unset" /\ combined_file = <<>>

(***************************************************************************)
(* generate_patient_data  (src lines 526-691): the blood-pressure and      *)
(* glucose columns of a day's record.  The columns X_1..X_4 of the record  *)
(* are the sequence X of length 4.                                         *)
(***************************************************************************)
\* Lines 533, 535, 583: has_hypertension or has_heart_disease
bp_gate(conds) ==
    InSeq("Hypertension", conds) \/ InSeq("Ischemic heart disease", conds)

\* A plausible slip: the blood-pressure flag handed to the glucose generator.
glucose_gate_as_bp(conds) ==
    InSeq("Hypertension", conds) \/ InSeq("Diabetes", conds)

\* Lines 534, 586: has_diabetes
glucose_gate(conds) == InSeq("Diabetes", conds)

\* Lines 645-682: the reading columns of day_data.
compile_day_data(date, bp, glucose) ==
    [Date                     |-> date,
     Systolic                 |-> bp.systolic_readings,
     Diastolic                |-> bp.diastolic_readings,
     Systolic_Type            |-> bp.systolic_types,
     Diastolic_Type           |-> bp.diastolic_types,
     BP_Time                  |-> bp.timestamps,
     Glucose                  |-> glucose.glucose_readings,
     Glucose_Measurement_Type |-> glucose.measurement_types,
     Glucose_Range            |-> glucose.glucose_ranges,
     Glucose_Time             |-> glucose.timestamps]

\* The draws of the daily specification: one blood-pressure pair, one glucose
\* value, one candidate time.
DailyBPDraws == { <<130, 85>> }

DailyGlucoseDraws == { <<"Pre meal", 612>> }

DailyTimes == { <<7, 5>> }

\* The counts a generator may sample: none behind a closed gate.
CountsFor(gate) == IF gate THEN ReadingCounts ELSE {0}

NoDay == [Date |-> 0]

gpIdle ==
    /\ gp_pc = "idle" /\ gp_conditions = <<>> /\ gp_day = 0 /\ day_data = NoDay
    /\ gp_bp_num_readings = 0 /\ gp_glucose_num_readings = 0

acIdle == ac_pc = "idle" /\ sampled = <<>> /\ conditions = <<>>

(***************************************************************************)
(* Meal times  (src lines 220-224, 548-568)                                *)
(***************************************************************************)
BREAKFAST_TIME_RANGE == <<6, 11>>

LUNCH_TIME_RANGE == <<11, 15>>

DINNER_TIME_RANGE == <<16, 22>>

LATE_NIGHT_SNACK_TIME_RANGE == <<22, 24>>

\* random.randint(a, b): any integer N with a <= N <= b, both ends included.
randint(a, b) == a..b

\* The minutes the model draws of random.randint(0, 59).
MealMinutes == {0, 30, 59}

mlIdle ==
    /\ meal_pc = "idle" /\ breakfast_time = <<>> /\ lunch_time = <<>>
    /\ dinner_time = <<>> /\ late_snack_time = <<>>

(***************************************************************************)
(* generate_measurement_timestamps_with_spacing  (src lines 375-424)       *)
(***************************************************************************)
\* Line 384
max_attempts == 50

\* The parameter min_hours_between (default 1, passed as 1 by both callers).
min_hours_between == 1

\* Lines 398-401: the difference of two times in minutes since midnight,
\* folded across midnight when above 12 hours.
time_diff(time_in_minutes, used_time) ==
    LET diff == IF time_in_minutes >= used_time
                THEN time_in_minutes - used_time
                ELSE used_time - time_in_minutes
    IN  IF diff > 12 * 60 THEN 24 * 60 - diff ELSE diff

\* Lines 396-404: valid_time after the loop over used_times.
valid_time(time_in_minutes, used) ==
    \A k \in 1..Len(used) :
        ~(time_diff(time_in_minutes, used[k]) < min_hours_between * 60)

\* The candidate times <<hour, minute>> the model draws of
\* random.randint(0, 23) and random.randint(0, 59): 23:40 and 00:20 are 40
\* minutes apart across midnight, 00:20 and 01:00 are 40 minutes apart,
\* 23:40 and 01:00 are 80 minutes apart.
CandidateTimes == { <<23, 40>>, <<0, 20>>, <<1, 0>> }

tsIdle ==
    /\ ts_pc = "idle" /\ ts_num_readings = 0 /\ ts_i = 0 /\ attempts = 0
    /\ ts_hour = 0 /\ ts_minute = 0 /\ used_times = <<>>
    /\ ts_timestamps = <<>> /\ ts_drawn = <<>> /\ ts_via = <<>>

(***************************************************************************)
(* parse_medications_with_dosages  (src lines 55-115).  A line and every   *)
(* string made from it is the sequence of its characters.                  *)
(***************************************************************************)
\* Python's None, a value no string equals.
None == << "<None>" >>

\* Whitespace as str.strip() removes it.
IsSpace(c) == c \in {" ", "\t", "\n"}

RECURSIVE lstrip(_)
lstrip(s) == IF s # <<>> /\ IsSpace(Head(s)) THEN lstrip(Tail(s)) ELSE s

RECURSIVE rstrip(_)
rstrip(s) ==
    IF s # <<>> /\ IsSpace(s[Len(s)]) THEN rstrip(SubSeq(s, 1, Len(s) - 1)) ELSE s

\* str.strip()
strip(s) == rstrip(lstrip(s))

\* str.startswith(prefix), str.endswith(suffix)
startswith(s, prefix) ==
    Len(s) >= Len(prefix) /\ SubSeq(s, 1, Len(prefix)) = prefix

endswith(s, suffix) ==
    Len(s) >= Len(suffix)
    /\ SubSeq(s, Len(s) - Len(suffix) + 1, Len(s)) = suffix

\* A plausible slip: line.split(":")[-1], the text after the last colon.
split_colon_last(s) ==
    LET k == CHOOSE n \in 1..Len(s) :
                 s[n] = ":" /\ \A m \in (n + 1)..Len(s) : s[m] # ":"
    IN  SubSeq(s, k + 1, Len(s))

\* line.split(":", 1)[1] of a line that holds a colon: the text after the
\* first colon.
split_colon_1(s) ==
    LET k == CHOOSE n \in 1..Len(s) :
                 s[n] = ":" /\ \A m \in 1..(n - 1) : s[m] # ":"
    IN  SubSeq(s, k + 1, Len(s))

\* The truth value of a string or None in `if x and ...`.
truthy(x) == x # None /\ x # <<>>

\* The literals of lines 71, 76, 97, 101, 105.
Str_Medications == << "M", "e", "d", "i", "c", "a", "t", "i", "o", "n", "s" >>

Str_Delimiter == << "=", "=", "=" >>

Str_Type == << "T", "y", "p", "e", ":" >>

Str_Category == << "C", "a", "t", "e", "g", "o", "r", "y", ":" >>

Str_Dose == << "D", "o", "s", "e", ":" >>

\* Line 71: if not line or line == "Medications"
is_blank_or_title(line) == line = <<>> \/ line = Str_Medications

\* Line 76: a section header
is_section_header(line) ==
    startswith(line, Str_Delimiter) /\ endswith(line, Str_Delimiter)

\* Lines 81-83: a medication name
is_medication_name(line) ==
    /\ ~InSeq(":", line) /\ line # <<>>
    /\ ~startswith(line, Str_Delimiter)
    /\ ~endswith(line, Str_Delimiter)

\* Lines 86-88, 111-113: the finished block is appended when all four of its
\* fields are truthy.
save_medication(meds, medication, type, category, dose) ==
    IF truthy(medication) /\ truthy(type) /\ truthy(category) /\ truthy(dose)
    THEN Append(meds, << medication, type, category, dose >>)
    ELSE meds

\* The lines the model's catalog files are made of, as f.readlines() gives
\* them: name lines, field lines (one with an empty value, one with a colon
\* in its value and blanks around it), a blank line, a section delimiter, the
\* title and a line with a key the parser does not know.
CatalogLine ==
    [ NameA |->
          << "A", "\n" >>,
      NameB |->
          << "B", "\n" >>,
      TypeP |->
          << "T", "y", "p", "e", ":", " ", "P", "\n" >>,
      TypeQ |->
          << "T", "y", "p", "e", ":", " ", "Q", "\n" >>,
      TypeEmpty |->
          << "T", "y", "p", "e", ":", "\n" >>,
      CategoryH |->
          << "C", "a", "t", "e", "g", "o", "r", "y", ":", " ", "H", "\n" >>,
      CategoryK |->
          << "C", "a", "t", "e", "g", "o", "r", "y", ":", " ", "K", "\n" >>,
      Dose1 |->
          << " ", " ", "D", "o", "s", "e", ":", " ", "1", ":", "2", " ", "\n" >>,
      Dose2 |->
          << "D", "o", "s", "e", ":", " ", "2", "\n" >>,
      Blank |->
          << "\n" >>,
      Section |->
          << "=", "=", "=", "H", "=", "=", "=", "\n" >>,
      Note |->
          << "N", "o", "t", "e", ":", " ", "x", "\n" >>,
      Title |->
          << "M", "e", "d", "i", "c", "a", "t", "i", "o", "n", "s", "\n" >> ]

\* Every file of at most MaxLines lines over LineAlphabet.
MaxLines == 4

LineAlphabet ==
    { CatalogLine.NameA, CatalogLine.TypeP, CatalogLine.TypeEmpty, CatalogLine.CategoryH, CatalogLine.Dose1,
      CatalogLine.Blank, CatalogLine.Section, CatalogLine.Note }

ShortFiles == UNION { [1..n -> LineAlphabet] : n \in 0..MaxLines }

\* The field lines of a block, in the shapes the model's two-block files use:
\* complete, complete in another order, category missing, type empty, an
\* empty type overridden by a later type line, no field at all.
BlockShapes(type, category, dose) ==
    { << type, category, dose >>, << dose, category, type >>, << type, dose >>,
      << CatalogLine.TypeEmpty, category, dose >>,
      << CatalogLine.TypeEmpty, type, category, dose >>, <<>> }

\* Files of two blocks: an optional title and delimiter, block A, an optional
\* blank line and delimiter, block B.
TwoBlockFiles ==
    { pre \o << CatalogLine.NameA >> \o a \o sep \o << CatalogLine.NameB >> \o b :
        pre \in { <<>>, << CatalogLine.Title, CatalogLine.Section >> },
        a \in BlockShapes(CatalogLine.TypeP, CatalogLine.CategoryH, CatalogLine.Dose1),
        sep \in { <<>>, << CatalogLine.Blank, CatalogLine.Section >> },
        b \in BlockShapes(CatalogLine.TypeQ, CatalogLine.CategoryK, CatalogLine.Dose2) }

CatalogFiles == ShortFiles \cup TwoBlockFiles

psIdle ==
    /\ ps_pc = "idle" /\ lines = <<>> /\ ps_i = 0
    /\ current_medication = None /\ current_type = None
    /\ current_category = None /\ current_dose = None
    /\ all_medications = <<>>

InitConditions ==
    /\ ac_pc = "draw" /\ sampled = <<>> /\ conditions = <<>>
    /\ rdIdle /\ exIdle /\ medIdle /\ mainIdle /\ gpIdle
    /\ mlIdle /\ tsIdle /\ psIdle

\* Lines 243-265: the ten independent inclusion draws.
DrawConditions ==
    /\ ac_pc = "draw"
    /\ \E dr \in InclusionDraws : sampled' = SampleConditions(dr)
    /\ ac_pc' = "augment"
    /\ UNCHANGED <<conditions, rdVars, exVars, medVars, mainVars, gpVars,
                   mlVars, tsVars, psVars>>

\* Lines 267-290: the fallback branches and the return.
AugmentConditions ==
    /\ ac_pc = "augment"
    /\ conditions' \in Augment(sampled)
    /\ ac_pc' = "done"
    /\ UNCHANGED <<sampled, rdVars, exVars, medVars, mainVars, gpVars,
                   mlVars, tsVars, psVars>>

NextConditions == DrawConditions \/ AugmentConditions

SpecConditions == InitConditions /\ [][NextConditions]_vars

(***************************************************************************)
(* The readings' specification: one call of either function on drawn       *)
(* inputs.                                                                 *)
(***************************************************************************)
InitReadings ==
    /\ rd_pc = "start" /\ rd_fn = "none" /\ rd_has_condition = FALSE
    /\ rd_num_readings = 0 /\ bp_result = NoBP /\ glucose_result = NoGlucose
    /\ acIdle /\ exIdle /\ medIdle /\ mainIdle /\ gpIdle
    /\ mlIdle /\ tsIdle /\ psIdle

\* A call generate_blood_pressure_readings(False): the early return.
BloodPressureGated ==
    /\ rd_pc = "start"
    /\ rd_fn' = "bp" /\ rd_has_condition' = FALSE /\ rd_num_readings' = 0
    /\ bp_result' = generate_blood_pressure_readings(FALSE, 0, <<>>, <<>>)
    /\ rd_pc' = "done"
    /\ UNCHANGED <<glucose_result, acVars, exVars, medVars, mainVars, gpVars,
                   mlVars, tsVars, psVars>>

\* A call generate_blood_pressure_readings(True).
BloodPressureReadings ==
    /\ rd_pc = "start"
    /\ \E n \in ReadingCounts :
       \E ts \in TimestampResults(n, ReadingTimes) :
       \E draws \in [1..n -> BPDraws] :
          /\ rd_num_readings' = n
          /\ bp_result' = generate_blood_pressure_readings(TRUE, n, ts, draws)
    /\ rd_fn' = "bp" /\ rd_has_condition' = TRUE
    /\ rd_pc' = "done"
    /\ UNCHANGED <<glucose_result, acVars, exVars, medVars, mainVars, gpVars,
                   mlVars, tsVars, psVars>>

\* A call generate_glucose_readings(False): the early return.
GlucoseGated ==
    /\ rd_pc = "start"
    /\ rd_fn' = "glucose" /\ rd_has_condition' = FALSE /\ rd_num_readings' = 0
    /\ glucose_result' = generate_glucose_readings(FALSE, 0, <<>>, <<>>)
    /\ rd_pc' = "done"
    /\ UNCHANGED <<bp_result, acVars, exVars, medVars, mainVars, gpVars,
                   mlVars, tsVars, psVars>>

\* A call generate_glucose_readings(True).
GlucoseReadings ==
    /\ rd_pc = "start"
    /\ \E n \in ReadingCounts :
       \E ts \in TimestampResults(n, ReadingTimes) :
       \E draws \in [1..n -> GlucoseDraws] :
          /\ rd_num_readings' = n
          /\ glucose_result' = generate_glucose_readings(TRUE, n, ts, draws)
    /\ rd_fn' = "glucose" /\ rd_has_condition' = TRUE
    /\ rd_pc' = "done"
    /\ UNCHANGED <<bp_result, acVars, exVars, medVars, mainVars, gpVars,
                   mlVars, tsVars, psVars>>

NextReadings ==
    BloodPressureGated \/ BloodPressureReadings \/ GlucoseGated \/ GlucoseReadings

SpecReadings == InitReadings /\ [][NextReadings]_vars

(***************************************************************************)
(* The exercise specification: one call of generate_exercise_data().       *)
(***************************************************************************)
InitExercise ==
    /\ ex_pc = "start" /\ num_exercises = 0 /\ total_minutes = 0
    /\ exercise_data = NoExercise
    /\ acIdle /\ rdIdle /\ medIdle /\ mainIdle /\ gpIdle
    /\ mlIdle /\ tsIdle /\ psIdle

GenerateExerciseData ==
    /\ ex_pc = "start"
    /\ \E n \in ExerciseCounts :
       \E total \in TotalDraws :
       \E selected_exercises \in ExerciseSamples(n) :
       \E points \in [1..(n - 1) -> 1..(total - 1)] :
          /\ num_exercises' = n
          /\ total_minutes' = total
          /\ exercise_data' =
                build_exercise_data(selected_exercises,
                                    exercise_minutes(n, total, points))
    /\ ex_pc' = "done"
    /\ UNCHANGED <<acVars, rdVars, medVars, mainVars, gpVars,
                   mlVars, tsVars, psVars>>

NextExercise == GenerateExerciseData

SpecExercise == InitExercise /\ [][NextExercise]_vars

(***************************************************************************)
(* The medication specification: one call of                               *)
(* assign_medications_by_conditions on a drawn condition list and catalog. *)
(***************************************************************************)
InitMedications ==
    /\ med_pc = "shuffle"
    /\ med_conditions \in ConditionLists
    /\ parsed_catalog \in Catalogs
    /\ ALL_MEDS_WITH_DOSAGES = parsed_catalog
    /\ pass_assigned = <<>> /\ assigned_meds = <<>>
    /\ acIdle /\ rdIdle /\ exIdle /\ mainIdle /\ gpIdle
    /\ mlIdle /\ tsIdle /\ psIdle

\* Line 307: random.shuffle(all_medications), in place.
ShuffleCatalog ==
    /\ med_pc = "shuffle"
    /\ ALL_MEDS_WITH_DOSAGES' \in Shuffles(ALL_MEDS_WITH_DOSAGES)
    /\ med_pc' = "pass"
    /\ UNCHANGED <<med_conditions, parsed_catalog, pass_assigned, assigned_meds,
                   acVars, rdVars, exVars, mainVars, gpVars,
                   mlVars, tsVars, psVars>>

\* Lines 310-336: the pass over the shuffled catalog.
CatalogPass ==
    /\ med_pc = "pass"
    /\ \E draws \in [1..Len(ALL_MEDS_WITH_DOSAGES) -> PassDraws] :
          pass_assigned' = catalog_pass(med_conditions, ALL_MEDS_WITH_DOSAGES, draws)
    /\ assigned_meds' = pass_assigned'
    /\ med_pc' = "default"
    /\ UNCHANGED <<med_conditions, parsed_catalog, ALL_MEDS_WITH_DOSAGES,
                   acVars, rdVars, exVars, mainVars, gpVars,
                   mlVars, tsVars, psVars>>

\* Lines 338-351: the default medication and the return.
DefaultAndReturn ==
    /\ med_pc = "default"
    /\ assigned_meds' = with_default(med_conditions, assigned_meds)
    /\ med_pc' = "done"
    /\ UNCHANGED <<med_conditions, parsed_catalog, ALL_MEDS_WITH_DOSAGES,
                   pass_assigned, acVars, rdVars, exVars, mainVars, gpVars,
                   mlVars, tsVars, psVars>>

NextMedications == ShuffleCatalog \/ CatalogPass \/ DefaultAndReturn

SpecMedications == InitMedications /\ [][NextMedications]_vars

(***************************************************************************)
(* Spec: the script from the patient loop to its last line.                *)
(***************************************************************************)
Init ==
    /\ main_pc = "loop" /\ i = 0 /\ patient_id = <<>>
    /\ patient_conditions = <<>> /\ day = 0 /\ data = <<>> /\ df = <<>>
    /\ patient_files = <<>> /\ all_patients_df = <<>> /\ attempt = 0
    /\ save_log = <<>> /\ success_public = "unset" /\ combined_file = <<>>
    /\ acIdle /\ rdIdle /\ exIdle /\ medIdle /\ gpIdle
    /\ mlIdle /\ tsIdle /\ psIdle

\* Lines 705-721: the next patient, up to the call of generate_patient_data.
StartPatient ==
    /\ main_pc = "loop" /\ i < LastPatient
    /\ i' = i + 1
    /\ patient_id' = Format03d(i + 1)
    /\ patient_conditions' \in AssignConditionsResults
    /\ day' = 0 /\ data' = <<>>
    /\ main_pc' = "generate"
    /\ UNCHANGED <<df, patient_files, all_patients_df, attempt, save_log,
                   success_public, combined_file, acVars, rdVars, exVars, medVars, gpVars,
                   mlVars, tsVars, psVars>>

\* Lines 540-690: one iteration of `for date in date_range`.
GenerateDay ==
    /\ main_pc = "generate" /\ day < Len(date_range)
    /\ data' = Append(data, [Date |-> date_range[day + 1]])
    /\ day' = day + 1
    /\ UNCHANGED <<main_pc, i, patient_id, patient_conditions, df, patient_files,
                   all_patients_df, attempt, save_log, success_public,
                   combined_file, acVars, rdVars, exVars, medVars, gpVars,
                   mlVars, tsVars, psVars>>

\* Lines 691, 721-736: generate_patient_data returns pd.DataFrame(data).
ReturnDataFrame ==
    /\ main_pc = "generate" /\ day = Len(date_range)
    /\ df' = data
    /\ main_pc' = "write"
    /\ UNCHANGED <<i, patient_id, patient_conditions, day, data, patient_files,
                   all_patients_df, attempt, save_log, success_public,
                   combined_file, acVars, rdVars, exVars, medVars, gpVars,
                   mlVars, tsVars, psVars>>

\* Lines 739-741: df.to_csv(filename_public), no retry.
WritePatientFile ==
    /\ main_pc = "write"
    /\ patient_files' = Append(patient_files, [Patient |-> patient_id, rows |-> df])
    /\ main_pc' = "combine"
    /\ UNCHANGED <<i, patient_id, patient_conditions, day, data, df,
                   all_patients_df, attempt, save_log, success_public,
                   combined_file, acVars, rdVars, exVars, medVars, gpVars,
                   mlVars, tsVars, psVars>>

\* Line 741 raising: nothing catches it, the script ends there.
WritePatientFileRaises ==
    /\ main_pc = "write"
    /\ main_pc' = "crashed"
    /\ UNCHANGED <<i, patient_id, patient_conditions, day, data, df, patient_files,
                   all_patients_df, attempt, save_log, success_public,
                   combined_file, acVars, rdVars, exVars, medVars, gpVars,
                   mlVars, tsVars, psVars>>

\* Lines 743-748: the first table is copied, the others are concatenated.
Combine ==
    /\ main_pc = "combine"
    /\ IF i = 1
       THEN /\ all_patients_df' = InsertPatientId(df, patient_id)
            /\ df' = df
       ELSE /\ df' = InsertPatientId(df, patient_id)
            /\ all_patients_df' = all_patients_df \o df'
    /\ main_pc' = "loop"
    /\ UNCHANGED <<i, patient_id, patient_conditions, day, data, patient_files,
                   attempt, save_log, success_public, combined_file,
                   acVars, rdVars, exVars, medVars, gpVars,
                   mlVars, tsVars, psVars>>

\* A plausible slip: the save is indented into the loop body, so it runs as
\* soon as the first patient is done.
CallSave_in_loop ==
    /\ main_pc = "loop" /\ i >= 1
    /\ attempt' = 0
    /\ main_pc' = "save"
    /\ UNCHANGED <<i, patient_id, patient_conditions, day, data, df, patient_files,
                   all_patients_df, save_log, success_public, combined_file,
                   acVars, rdVars, exVars, medVars, gpVars,
                   mlVars, tsVars, psVars>>

\* Line 772: the loop is over, save_csv_with_retry is called.
CallSave ==
    /\ main_pc = "loop" /\ i = LastPatient
    /\ attempt' = 0
    /\ main_pc' = "save"
    /\ UNCHANGED <<i, patient_id, patient_conditions, day, data, df, patient_files,
                   all_patients_df, save_log, success_public, combined_file,
                   acVars, rdVars, exVars, medVars, gpVars,
                   mlVars, tsVars, psVars>>

\* Lines 753-757: an attempt that succeeds.
SaveSucceeds ==
    /\ main_pc = "save" /\ attempt < max_retries
    /\ combined_file' = all_patients_df
    /\ save_log' = Append(save_log, "written")
    /\ success_public' = "True"
    /\ main_pc' = "report"
    /\ UNCHANGED <<i, patient_id, patient_conditions, day, data, df, patient_files,
                   all_patients_df, attempt, acVars, rdVars, exVars, medVars, gpVars,
                   mlVars, tsVars, psVars>>

\* Lines 758-765: an attempt that raises PermissionError.  When the loop
\* runs out without a return the function returns None.
SavePermissionError ==
    /\ main_pc = "save" /\ attempt < max_retries
    /\ IF may_retry(attempt)
       THEN /\ save_log' = save_log \o << "PermissionError", "sleep 2" >>
            /\ attempt' = attempt + 1
            /\ IF attempt + 1 < max_retries
               THEN /\ main_pc' = "save"
                    /\ success_public' = success_public
               ELSE /\ main_pc' = "report"
                    /\ success_public' = "None"
       ELSE /\ save_log' = Append(save_log, "PermissionError")
            /\ attempt' = attempt
            /\ success_public' = "False"
            /\ main_pc' = "report"
    /\ UNCHANGED <<i, patient_id, patient_conditions, day, data, df, patient_files,
                   all_patients_df, combined_file, acVars, rdVars, exVars, medVars, gpVars,
                   mlVars, tsVars, psVars>>

\* Lines 766-768: an attempt that raises any other exception.
SaveOtherError ==
    /\ main_pc = "save" /\ attempt < max_retries
    /\ save_log' = Append(save_log, "Exception")
    /\ success_public' = "False"
    /\ main_pc' = "report"
    /\ UNCHANGED <<i, patient_id, patient_conditions, day, data, df, patient_files,
                   all_patients_df, attempt, combined_file,
                   acVars, rdVars, exVars, medVars, gpVars,
                   mlVars, tsVars, psVars>>

\* Lines 774-778: the closing message; the script ends.
Report ==
    /\ main_pc = "report"
    /\ main_pc' = "done"
    /\ UNCHANGED <<i, patient_id, patient_conditions, day, data, df, patient_files,
                   all_patients_df, attempt, save_log, success_public,
                   combined_file, acVars, rdVars, exVars, medVars, gpVars,
                   mlVars, tsVars, psVars>>

Next ==
    \/ StartPatient \/ GenerateDay \/ ReturnDataFrame
    \/ WritePatientFile \/ WritePatientFileRaises \/ Combine
    \/ CallSave \/ SaveSucceeds \/ SavePermissionError \/ SaveOtherError
    \/ Report

Spec == Init /\ [][Next]_vars

(***************************************************************************)
(* The daily specification: generate_patient_data for one patient whose    *)
(* conditions assign_conditions returned.                                  *)
(***************************************************************************)
InitDaily ==
    /\ gp_pc = "loop"
    /\ gp_conditions \in AssignConditionsResults
    /\ gp_day = 0 /\ day_data = NoDay
    /\ gp_bp_num_readings = 0 /\ gp_glucose_num_readings = 0
    /\ acIdle /\ rdIdle /\ exIdle /\ medIdle /\ mainIdle
    /\ mlIdle /\ tsIdle /\ psIdle

\* Lines 540-690: one iteration of `for date in date_range`.
CompileDay ==
    /\ gp_pc = "loop" /\ gp_day < Len(date_range)
    /\ \E nb \in CountsFor(bp_gate(gp_conditions)) :
       \E ng \in CountsFor(glucose_gate(gp_conditions)) :
       \E tb \in TimestampResults(nb, DailyTimes) :
       \E tg \in TimestampResults(ng, DailyTimes) :
       \E db \in [1..nb -> DailyBPDraws] :
       \E dg \in [1..ng -> DailyGlucoseDraws] :
          /\ gp_bp_num_readings' = nb
          /\ gp_glucose_num_readings' = ng
          /\ day_data' =
                compile_day_data(
                   date_range[gp_day + 1],
                   generate_blood_pressure_readings(bp_gate(gp_conditions), nb, tb, db),
                   generate_glucose_readings(glucose_gate(gp_conditions), ng, tg, dg))
    /\ gp_day' = gp_day + 1
    /\ UNCHANGED <<gp_pc, gp_conditions, acVars, rdVars, exVars, medVars, mainVars,
                   mlVars, tsVars, psVars>>

\* Line 691: return pd.DataFrame(data)
ReturnFromPatientData ==
    /\ gp_pc = "loop" /\ gp_day = Len(date_range)
    /\ gp_pc' = "done"
    /\ UNCHANGED <<gp_conditions, gp_day, day_data, gp_bp_num_readings,
                   gp_glucose_num_readings,
                   acVars, rdVars, exVars, medVars, mainVars,
                   mlVars, tsVars, psVars>>

NextDaily == CompileDay \/ ReturnFromPatientData

SpecDaily == InitDaily /\ [][NextDaily]_vars

(***************************************************************************)
(* The meal-time specification: lines 548-568 of one iteration of the loop *)
(* of generate_patient_data.                                               *)
(***************************************************************************)
InitMeals ==
    /\ meal_pc = "breakfast" /\ breakfast_time = <<>> /\ lunch_time = <<>>
    /\ dinner_time = <<>> /\ late_snack_time = <<>>
    /\ acIdle /\ rdIdle /\ exIdle /\ medIdle /\ mainIdle /\ gpIdle
    /\ tsIdle /\ psIdle

\* Lines 549-551
DrawBreakfastTime ==
    /\ meal_pc = "breakfast"
    /\ \E breakfast_hour \in randint(BREAKFAST_TIME_RANGE[1], BREAKFAST_TIME_RANGE[2]) :
       \E breakfast_minute \in randint(0, 59) \cap MealMinutes :
          breakfast_time' = FormatTime(breakfast_hour, breakfast_minute)
    /\ meal_pc' = "lunch"
    /\ UNCHANGED <<lunch_time, dinner_time, late_snack_time, acVars, rdVars,
                   exVars, medVars, mainVars, gpVars, tsVars, psVars>>

\* Lines 554-556
DrawLunchTime ==
    /\ meal_pc = "lunch"
    /\ \E lunch_hour \in randint(LUNCH_TIME_RANGE[1], LUNCH_TIME_RANGE[2]) :
       \E lunch_minute \in randint(0, 59) \cap MealMinutes :
          lunch_time' = FormatTime(lunch_hour, lunch_minute)
    /\ meal_pc' = "dinner"
    /\ UNCHANGED <<breakfast_time, dinner_time, late_snack_time, acVars, rdVars,
                   exVars, medVars, mainVars, gpVars, tsVars, psVars>>

\* Lines 559-561
DrawDinnerTime ==
    /\ meal_pc = "dinner"
    /\ \E dinner_hour \in randint(DINNER_TIME_RANGE[1], DINNER_TIME_RANGE[2]) :
       \E dinner_minute \in randint(0, 59) \cap MealMinutes :
          dinner_time' = FormatTime(dinner_hour, dinner_minute)
    /\ meal_pc' = "late_snack"
    /\ UNCHANGED <<breakfast_time, lunch_time, late_snack_time, acVars, rdVars,
                   exVars, medVars, mainVars, gpVars, tsVars, psVars>>

\* Lines 565-567
DrawLateSnackTime ==
    /\ meal_pc = "late_snack"
    /\ \E late_snack_hour \in randint(LATE_NIGHT_SNACK_TIME_RANGE[1],
                                      LATE_NIGHT_SNACK_TIME_RANGE[2]) :
       \E late_snack_minute \in randint(0, 59) \cap MealMinutes :
          late_snack_time' = FormatTime(late_snack_hour, late_snack_minute)
    /\ meal_pc' = "done"
    /\ UNCHANGED <<breakfast_time, lunch_time, dinner_time, acVars, rdVars,
                   exVars, medVars, mainVars, gpVars, tsVars, psVars>>

NextMeals ==
    DrawBreakfastTime \/ DrawLunchTime \/ DrawDinnerTime \/ DrawLateSnackTime

SpecMeals == InitMeals /\ [][NextMeals]_vars

(***************************************************************************)
(* The timestamp specification: one call of                                *)
(* generate_measurement_timestamps_with_spacing, statement by statement.   *)
(* The function is sequential code: a step that can be taken is taken.     *)
(***************************************************************************)
InitTimestamps ==
    /\ ts_pc = "start" /\ ts_num_readings \in 0..4 /\ ts_i = 0 /\ attempts = 0
    /\ ts_hour = 0 /\ ts_minute = 0 /\ used_times = <<>>
    /\ ts_timestamps = <<>> /\ ts_drawn = <<>> /\ ts_via = <<>>
    /\ acIdle /\ rdIdle /\ exIdle /\ medIdle /\ mainIdle /\ gpIdle
    /\ mlIdle /\ psIdle

\* Lines 377-378: if num_readings == 0: return ["", "", "", ""]
ReturnNoTimestamps ==
    /\ ts_pc = "start" /\ ts_num_readings = 0
    /\ ts_timestamps' = << <<>>, <<>>, <<>>, <<>> >>
    /\ ts_pc' = "done"
    /\ UNCHANGED <<ts_num_readings, ts_i, attempts, ts_hour, ts_minute,
                   used_times, ts_drawn, ts_via, acVars, rdVars, exVars,
                   medVars, mainVars, gpVars, mlVars, psVars>>

\* Lines 380-381: timestamps = [], used_times = []
EnterLoop ==
    /\ ts_pc = "start" /\ ts_num_readings # 0
    /\ ts_timestamps' = <<>> /\ used_times' = <<>>
    /\ ts_pc' = "for"
    /\ UNCHANGED <<ts_num_readings, ts_i, attempts, ts_hour, ts_minute,
                   ts_drawn, ts_via, acVars, rdVars, exVars, medVars,
                   mainVars, gpVars, mlVars, psVars>>

\* Lines 383-385: the next iteration of `for i in range(num_readings)`.
BeginReading ==
    /\ ts_pc = "for" /\ ts_i < ts_num_readings
    /\ attempts' = 0
    /\ ts_drawn' = Append(ts_drawn, 0)
    /\ ts_pc' = "while"
    /\ UNCHANGED <<ts_num_readings, ts_i, ts_hour, ts_minute, used_times,
                   ts_timestamps, ts_via, acVars, rdVars, exVars, medVars,
                   mainVars, gpVars, mlVars, psVars>>

\* Lines 387-411 and 416: a candidate that passes the spacing check is
\* recorded and appended; the break leaves attempts below max_attempts, so
\* the fallback test of line 416 is false.
CandidateAccepted ==
    /\ ts_pc = "while" /\ attempts < max_attempts
    /\ \E t \in CandidateTimes :
          LET time_in_minutes == t[1] * 60 + t[2]
          IN  /\ valid_time(time_in_minutes, used_times)
              /\ ts_hour' = t[1] /\ ts_minute' = t[2]
              /\ used_times' = Append(used_times, time_in_minutes)
              /\ ts_timestamps' = Append(ts_timestamps, FormatTime(t[1], t[2]))
    /\ ts_drawn' = [ts_drawn EXCEPT ![Len(ts_drawn)] = @ + 1]
    /\ ts_via' = Append(ts_via, "check")
    /\ ts_i' = ts_i + 1
    /\ ts_pc' = "for"
    /\ UNCHANGED <<ts_num_readings, attempts, acVars, rdVars, exVars, medVars,
                   mainVars, gpVars, mlVars, psVars>>

\* Lines 387-404 and 413: a candidate too close to a used time.
CandidateRejected ==
    /\ ts_pc = "while" /\ attempts < max_attempts
    /\ \E t \in CandidateTimes :
          /\ ~valid_time(t[1] * 60 + t[2], used_times)
          /\ ts_hour' = t[1] /\ ts_minute' = t[2]
    /\ attempts' = attempts + 1
    /\ ts_drawn' = [ts_drawn EXCEPT ![Len(ts_drawn)] = @ + 1]
    /\ UNCHANGED <<ts_pc, ts_num_readings, ts_i, used_times, ts_timestamps,
                   ts_via, acVars, rdVars, exVars, medVars, mainVars, gpVars,
                   mlVars, psVars>>

\* A plausible slip: the fallback of lines 416-418 is missing, an exhausted
\* reading appends nothing.
AttemptsExhausted_no_fallback ==
    /\ ts_pc = "while" /\ ~(attempts < max_attempts)
    /\ ts_via' = Append(ts_via, "fallback")
    /\ ts_i' = ts_i + 1
    /\ ts_pc' = "for"
    /\ UNCHANGED <<ts_num_readings, attempts, ts_hour, ts_minute, used_times,
                   ts_timestamps, ts_drawn, acVars, rdVars, exVars, medVars,
                   mainVars, gpVars, mlVars, psVars>>

\* Lines 416-418: the while loop ran out; the last candidate is appended to
\* timestamps (used_times is left as it is).
AttemptsExhausted ==
    /\ ts_pc = "while" /\ ~(attempts < max_attempts)
    /\ attempts >= max_attempts
    /\ ts_timestamps' = Append(ts_timestamps, FormatTime(ts_hour, ts_minute))
    /\ ts_via' = Append(ts_via, "fallback")
    /\ ts_i' = ts_i + 1
    /\ ts_pc' = "for"
    /\ UNCHANGED <<ts_num_readings, attempts, ts_hour, ts_minute, used_times,
                   ts_drawn, acVars, rdVars, exVars, medVars, mainVars,
                   gpVars, mlVars, psVars>>

\* Lines 421-424: pad to 4 entries and return.
PadAndReturn ==
    /\ ts_pc = "for" /\ ~(ts_i < ts_num_readings)
    /\ ts_timestamps' = PadTimestamps(ts_timestamps)
    /\ ts_pc' = "done"
    /\ UNCHANGED <<ts_num_readings, ts_i, attempts, ts_hour, ts_minute,
                   used_times, ts_drawn, ts_via, acVars, rdVars, exVars,
                   medVars, mainVars, gpVars, mlVars, psVars>>

NextTimestamps ==
    \/ ReturnNoTimestamps \/ EnterLoop \/ BeginReading
    \/ CandidateAccepted \/ CandidateRejected \/ AttemptsExhausted
    \/ PadAndReturn

SpecTimestamps ==
    InitTimestamps /\ [][NextTimestamps]_vars /\ WF_vars(NextTimestamps)

(***************************************************************************)
(* The parser specification: one call of parse_medications_with_dosages    *)
(* on a drawn file, one loop iteration per step.                           *)
(***************************************************************************)
InitParse ==
    /\ ps_pc = "while" /\ lines \in CatalogFiles /\ ps_i = 0
    /\ current_medication = None /\ current_type = None
    /\ current_category = None /\ current_dose = None
    /\ all_medications = <<>>
    /\ acIdle /\ rdIdle /\ exIdle /\ medIdle /\ mainIdle /\ gpIdle
    /\ mlIdle /\ tsIdle

\* Line 69: line = lines[i].strip()
current_line == strip(lines[ps_i + 1])

\* Lines 71-73: a blank line or the title: i += 1, continue.
SkipBlankOrTitle ==
    /\ ps_pc = "while" /\ ps_i < Len(lines)
    /\ is_blank_or_title(current_line)
    /\ ps_i' = ps_i + 1
    /\ UNCHANGED <<ps_pc, lines, current_medication, current_type,
                   current_category, current_dose, all_medications, acVars,
                   rdVars, exVars, medVars, mainVars, gpVars, mlVars, tsVars>>

\* Lines 76-78: a section header: i += 1, continue.
SkipSectionHeader ==
    /\ ps_pc = "while" /\ ps_i < Len(lines)
    /\ ~is_blank_or_title(current_line)
    /\ is_section_header(current_line)
    /\ ps_i' = ps_i + 1
    /\ UNCHANGED <<ps_pc, lines, current_medication, current_type,
                   current_category, current_dose, all_medications, acVars,
                   rdVars, exVars, medVars, mainVars, gpVars, mlVars, tsVars>>

\* Lines 81-94, 108: a name line closes the previous block and opens one.
MedicationName ==
    /\ ps_pc = "while" /\ ps_i < Len(lines)
    /\ ~is_blank_or_title(current_line) /\ ~is_section_header(current_line)
    /\ is_medication_name(current_line)
    /\ all_medications' = save_medication(all_medications, current_medication,
                                          current_type, current_category,
                                          current_dose)
    /\ current_medication' = current_line
    /\ current_type' = None /\ current_category' = None /\ current_dose' = None
    /\ ps_i' = ps_i + 1
    /\ UNCHANGED <<ps_pc, lines, acVars, rdVars, exVars, medVars, mainVars,
                   gpVars, mlVars, tsVars>>

\* Lines 97-98, 108
TypeLine ==
    /\ ps_pc = "while" /\ ps_i < Len(lines)
    /\ ~is_blank_or_title(current_line) /\ ~is_section_header(current_line)
    /\ ~is_medication_name(current_line)
    /\ startswith(current_line, Str_Type)
    /\ current_type' = strip(split_colon_1(current_line))
    /\ ps_i' = ps_i + 1
    /\ UNCHANGED <<ps_pc, lines, current_medication, current_category,
                   current_dose, all_medications, acVars, rdVars, exVars,
                   medVars, mainVars, gpVars, mlVars, tsVars>>

\* Lines 101-102, 108
CategoryLine ==
    /\ ps_pc = "while" /\ ps_i < Len(lines)
    /\ ~is_blank_or_title(current_line) /\ ~is_section_header(current_line)
    /\ ~is_medication_name(current_line)
    /\ ~startswith(current_line, Str_Type)
    /\ startswith(current_line, Str_Category)
    /\ current_category' = strip(split_colon_1(current_line))
    /\ ps_i' = ps_i + 1
    /\ UNCHANGED <<ps_pc, lines, current_medication, current_type,
                   current_dose, all_medications, acVars, rdVars, exVars,
                   medVars, mainVars, gpVars, mlVars, tsVars>>

\* Lines 105-106, 108
DoseLine ==
    /\ ps_pc = "while" /\ ps_i < Len(lines)
    /\ ~is_blank_or_title(current_line) /\ ~is_section_header(current_line)
    /\ ~is_medication_name(current_line)
    /\ ~startswith(current_line, Str_Type)
    /\ ~startswith(current_line, Str_Category)
    /\ startswith(current_line, Str_Dose)
    /\ current_dose' = strip(split_colon_1(current_line))
    /\ ps_i' = ps_i + 1
    /\ UNCHANGED <<ps_pc, lines, current_medication, current_type,
                   current_category, all_medications, acVars, rdVars, exVars,
                   medVars, mainVars, gpVars, mlVars, tsVars>>

\* Line 108 alone: no branch of the chain took the line.
UnmatchedLine ==
    /\ ps_pc = "while" /\ ps_i < Len(lines)
    /\ ~is_blank_or_title(current_line) /\ ~is_section_header(current_line)
    /\ ~is_medication_name(current_line)
    /\ ~startswith(current_line, Str_Type)
    /\ ~startswith(current_line, Str_Category)
    /\ ~startswith(current_line, Str_Dose)
    /\ ps_i' = ps_i + 1
    /\ UNCHANGED <<ps_pc, lines, current_medication, current_type,
                   current_category, current_dose, all_medications, acVars,
                   rdVars, exVars, medVars, mainVars, gpVars, mlVars, tsVars>>

\* Lines 110-115: the last block and the return.
LastMedication ==
    /\ ps_pc = "while" /\ ~(ps_i < Len(lines))
    /\ all_medications' = save_medication(all_medications, current_medication,
                                          current_type, current_category,
                                          current_dose)
    /\ ps_pc' = "done"
    /\ UNCHANGED <<lines, ps_i, current_medication, current_type,
                   current_category, current_dose, acVars, rdVars, exVars,
                   medVars, mainVars, gpVars, mlVars, tsVars>>

NextParse ==
    \/ SkipBlankOrTitle \/ SkipSectionHeader \/ MedicationName
    \/ TypeLine \/ CategoryLine \/ DoseLine \/ UnmatchedLine
    \/ LastMedication

SpecParse == InitParse /\ [][NextParse]_vars

\* C1: every list assign_conditions returns has at least 2 conditions, no
\* condition twice, and only labels of the 10-condition vocabulary.
C1_ConditionFloor ==
    ac_pc = "done" =>
        /\ Len(conditions) >= 2
        /\ NoDuplicates(conditions)
        /\ \A k \in 1..Len(conditions) : InSeq(conditions[k], ConditionVocabulary)

\* C1 witness: a returned list that the one-condition fallback had to extend.
C1_Witness ==
    /\ ac_pc = "done"
    /\ Len(sampled) = 1
    /\ Len(conditions) = 2
    /\ conditions[1] = "Periodontal disease"


\* C2: in every populated blood-pressure slot (index below the sampled
\* count) the stored systolic minus the stored diastolic is at least 10.
C2_BPOrdering ==
    (rd_pc = "done" /\ rd_fn = "bp") =>
        \A k \in 1..rd_num_readings :
            bp_result.systolic_readings[k] - bp_result.diastolic_readings[k] >= 10

\* C2 witness: a reading whose diastolic draw (95) was above systolic - 10.
C2_Witness ==
    /\ rd_pc = "done" /\ rd_fn = "bp" /\ rd_num_readings = 4
    /\ bp_result.systolic_readings[4] = 100
    /\ bp_result.diastolic_readings[4] = 90

\* The threshold table the claim C7 states.
C7_SystolicLabel(v) ==
    CASE v < 90               -> "Low blood pressure"
      [] v >= 90 /\ v <= 120  -> "Ideal"
      [] v > 120 /\ v <= 140  -> "Pre-high blood pressure"
      [] v > 140              -> "High blood pressure"

C7_DiastolicLabel(v) ==
    CASE v < 60               -> "Low blood pressure"
      [] v >= 60 /\ v <= 80   -> "Ideal"
      [] v > 80 /\ v <= 90    -> "Pre-high blood pressure"
      [] v > 90               -> "High blood pressure"

C7_GlucoseLabel(v, type) ==
    LET lo == IF type = "Pre meal" THEN 40 ELSE 50
        hi == IF type = "Pre meal" THEN 70 ELSE 100
    IN  CASE v < lo            -> "below range"
          [] v >= lo /\ v <= hi -> "in range"
          [] v > hi            -> "above range"

\* C7: in every populated glucose and blood-pressure reading the stored
\* category label is the one the threshold table assigns to the stored value
\* (the value after clipping, rounding and the diastolic adjustment).
C7_LabelsMatchTable ==
    /\ (rd_pc = "done" /\ rd_fn = "bp") =>
          \A k \in 1..rd_num_readings :
             /\ bp_result.systolic_types[k] =
                   C7_SystolicLabel(bp_result.systolic_readings[k])
             /\ bp_result.diastolic_types[k] =
                   C7_DiastolicLabel(bp_result.diastolic_readings[k])
    /\ (rd_pc = "done" /\ rd_fn = "glucose") =>
          \A k \in 1..rd_num_readings :
             /\ glucose_result.measurement_types[k] \in MeasurementTypes
             /\ glucose_result.glucose_ranges[k] =
                   C7_GlucoseLabel(glucose_result.glucose_readings[k],
                                   glucose_result.measurement_types[k])

\* C7 witness: systolic exactly 120 stored as "Ideal" beside a diastolic that
\* the cap moved from 91 to 80.
C7_Witness ==
    /\ rd_pc = "done" /\ rd_fn = "bp" /\ rd_num_readings = 2
    /\ bp_result.systolic_readings = <<120, 90, 0, 0>>
    /\ bp_result.diastolic_readings = <<80, 80, 0, 0>>
    /\ bp_result.systolic_types[1] = "Ideal"
    /\ bp_result.diastolic_types[2] = "Ideal"

\* C4: the five Exercise_Minutes slots sum to the sampled total, and the
\* slots beyond the sampled count hold 0 minutes and an empty type.
C4_ExerciseBudget ==
    ex_pc = "done" =>
        /\ exercise_data.Exercise_Minutes[1] + exercise_data.Exercise_Minutes[2]
             + exercise_data.Exercise_Minutes[3] + exercise_data.Exercise_Minutes[4]
             + exercise_data.Exercise_Minutes[5] = total_minutes
        /\ \A k \in (num_exercises + 1)..5 :
              /\ exercise_data.Exercise_Minutes[k] = 0
              /\ exercise_data.Exercise_Type[k] = ""

\* C4 witness: three exercises sharing a total of 6 minutes, two of the
\* partition points coinciding.
C4_Witness ==
    /\ ex_pc = "done" /\ num_exercises = 3 /\ total_minutes = 6
    /\ exercise_data.Exercise_Minutes = <<2, 0, 4, 0, 0>>
    /\ exercise_data.Exercise_Type[4] = ""


\* The number of medications of `category` in a list.
C5_CountOf(list, category) ==
    Cardinality({k \in 1..Len(list) : list[k][3] = category})

\* C5: the list assign_medications_by_conditions returns holds at most 2
\* medications of any one category.
C5_CategoryCap ==
    med_pc = "done" =>
        \A k \in 1..Len(assigned_meds) :
            C5_CountOf(assigned_meds, assigned_meds[k][3]) <= 2

\* C5 witness: a catalog of three heart medications and a patient with
\* Hypertension, who is assigned two of them.
C5_Witness ==
    /\ med_pc = "done"
    /\ InSeq("Hypertension", med_conditions)
    /\ \A k \in 1..Len(parsed_catalog) :
          parsed_catalog[k][3] = "Heart health and hypertension"
    /\ Len(parsed_catalog) >= 3
    /\ Len(assigned_meds) = 2

\* The default medication the claim C6 names for a condition list.
C6_Default(conds) ==
    CASE InSeq("Hypertension", conds) \/ InSeq("Ischemic heart disease", conds)
            -> "Lisinopril"
      [] OTHER ->
         CASE InSeq("Diabetes", conds) -> "Metformin"
           [] OTHER ->
              CASE InSeq("Osteoarthritis", conds) \/ InSeq("Osteoporosis", conds)
                      -> "Ibuprofen"
                [] OTHER ->
                   CASE InSeq("Mood and/or anxiety disorder", conds) -> "Sertraline"
                     [] OTHER -> "Vitamin D"

\* C6: assign_medications_by_conditions never returns an empty list; when
\* the catalog pass assigned nothing the result is exactly one medication,
\* the default of the condition priority, and otherwise it is what the pass
\* assigned.
C6_NeverEmpty ==
    med_pc = "done" =>
        /\ Len(assigned_meds) >= 1
        /\ Len(pass_assigned) = 0 =>
              /\ Len(assigned_meds) = 1
              /\ assigned_meds[1][1] = C6_Default(med_conditions)
        /\ Len(pass_assigned) > 0 => assigned_meds = pass_assigned

\* C6 witness: a patient with Diabetes and Hypertension whose pass assigned
\* nothing although the catalog held a diabetes medication: Lisinopril.
C6_Witness ==
    /\ med_pc = "done"
    /\ InSeq("Diabetes", med_conditions) /\ InSeq("Hypertension", med_conditions)
    /\ \E k \in 1..Len(parsed_catalog) :
          parsed_catalog[k][3] = "Diabetes (oral or injectable)"
    /\ pass_assigned = <<>>
    /\ assigned_meds = << << "Lisinopril", "Prescribed",
                             "Heart health and hypertension", "10 mg once daily" >> >>

\* The rows a patient's table must hold: one per date of the inclusive range
\* start_date..end_date, ascending.
C8_DatesInOrder(rows) ==
    /\ Len(rows) = end_date - start_date + 1
    /\ \A k \in 1..Len(rows) : rows[k].Date = start_date + (k - 1)
    /\ \A k \in 1..(Len(rows) - 1) : rows[k + 1].Date = rows[k].Date + 1

\* C8: each patient's table holds exactly one row for every date of
\* start_date..end_date in ascending order (396 rows in the reference
\* period); once the loop is over the combined table holds that many rows
\* for each patient generated, each with the Patient_ID of its patient, in
\* generation order.
C8_RowCount ==
    /\ reference_end_date - start_date + 1 = 396
    /\ main_pc \in {"write", "combine"} => C8_DatesInOrder(df)
    /\ \A f \in 1..Len(patient_files) :
          /\ patient_files[f].Patient = Format03d(f)
          /\ C8_DatesInOrder(patient_files[f].rows)
    /\ main_pc \in {"save", "report", "done"} =>
          LET n == end_date - start_date + 1
          IN  /\ i = LastPatient
              /\ Len(all_patients_df) = LastPatient * n
              /\ \A q \in 1..LastPatient : \A k \in 1..n :
                    /\ all_patients_df[(q - 1) * n + k].Patient_ID = Format03d(q)
                    /\ all_patients_df[(q - 1) * n + k].Date = start_date + (k - 1)

\* C8 witness: the script ended with the combined table of several patients
\* written to the combined file.
C8_Witness ==
    /\ main_pc = "done"
    /\ Len(patient_files) = LastPatient /\ LastPatient >= 2
    /\ Len(combined_file) = LastPatient * NumDays
    /\ combined_file[Len(combined_file)].Patient_ID = Format03d(LastPatient)
    /\ combined_file[Len(combined_file)].Date = end_date

\* What save_csv_with_retry may have done when it returns, and what it
\* returns then, as the claim C10 states it.
C10_Allowed ==
    { [log |-> << "written" >>, ret |-> "True"],
      [log |-> << "PermissionError", "sleep 2", "written" >>, ret |-> "True"],
      [log |-> << "PermissionError", "sleep 2", "PermissionError", "sleep 2",
                  "written" >>, ret |-> "True"],
      [log |-> << "PermissionError", "sleep 2", "PermissionError", "sleep 2",
                  "PermissionError" >>, ret |-> "False"],
      [log |-> << "Exception" >>, ret |-> "False"],
      [log |-> << "PermissionError", "sleep 2", "Exception" >>, ret |-> "False"],
      [log |-> << "PermissionError", "sleep 2", "PermissionError", "sleep 2",
                  "Exception" >>, ret |-> "False"] }

C10_Attempts(log) ==
    Cardinality({k \in 1..Len(log) : log[k] # "sleep 2"})

\* C10: save_csv_with_retry makes at most 3 write attempts; it returns True
\* at the first attempt that succeeds, waits and retries only after a
\* permission error with fewer than 3 attempts made, returns False without
\* waiting after the third permission error, and returns False at once, with
\* no further attempt, after any other error.
C10_BoundedRetry ==
    /\ C10_Attempts(save_log) <= 3
    /\ main_pc \in {"report", "done"} =>
          [log |-> save_log, ret |-> success_public] \in C10_Allowed
    /\ main_pc = "save" =>
          /\ success_public = "unset"
          /\ \A k \in 1..Len(save_log) :
                save_log[k] = (IF k % 2 = 1 THEN "PermissionError" ELSE "sleep 2")
          /\ Len(save_log) = 2 * attempt
    /\ success_public = "True" <=> (combined_file # <<>>)

\* C10 witness: three permission errors, two waits, False returned.
C10_Witness ==
    /\ main_pc = "done"
    /\ success_public = "False"
    /\ save_log = << "PermissionError", "sleep 2", "PermissionError", "sleep 2",
                     "PermissionError" >>
    /\ combined_file = <<>>

C3_Empty4 == << "", "", "", "" >>

C3_NoTime4 == << <<>>, <<>>, <<>>, <<>> >>

\* C3: in every daily record of a patient with neither Hypertension nor
\* Ischemic heart disease all 4 blood-pressure slots are zero/empty; in every
\* daily record of a patient without Diabetes all 4 glucose slots are
\* zero/empty.
C3_Gating ==
    gp_day >= 1 =>
        /\ (~InSeq("Hypertension", gp_conditions)
            /\ ~InSeq("Ischemic heart disease", gp_conditions)) =>
              /\ day_data.Systolic = <<0, 0, 0, 0>>
              /\ day_data.Diastolic = <<0, 0, 0, 0>>
              /\ day_data.Systolic_Type = C3_Empty4
              /\ day_data.Diastolic_Type = C3_Empty4
              /\ day_data.BP_Time = C3_NoTime4
        /\ ~InSeq("Diabetes", gp_conditions) =>
              /\ day_data.Glucose = <<0, 0, 0, 0>>
              /\ day_data.Glucose_Measurement_Type = C3_Empty4
              /\ day_data.Glucose_Range = C3_Empty4
              /\ day_data.Glucose_Time = C3_NoTime4

\* C3 witness: a patient with Hypertension and without Diabetes, on the last
\* day: blood pressure recorded, every glucose slot empty.
C3_Witness ==
    /\ gp_day = Len(date_range)
    /\ gp_conditions = << "Hypertension", "Osteoarthritis" >>
    /\ day_data.Systolic = <<130, 130, 0, 0>>
    /\ day_data.BP_Time[2] = << "0", "7", ":", "0", "5" >>
    /\ day_data.Glucose = <<0, 0, 0, 0>>
    /\ day_data.Glucose_Time = C3_NoTime4

\* C11: every daily record has exactly 4 blood-pressure slots and 4 glucose
\* slots; with n the count sampled for the day (0 behind a closed gate),
\* slots 1..n carry non-empty labels, slots n+1..4 hold value 0 with empty
\* label strings, and the timestamp of a slot is non-empty exactly when the
\* slot is populated.
C11_FixedWidth ==
    gp_day >= 1 =>
        /\ gp_bp_num_readings \in 0..4 /\ gp_glucose_num_readings \in 0..4
        /\ (gp_bp_num_readings = 0) <=> ~bp_gate(gp_conditions)
        /\ (gp_glucose_num_readings = 0) <=> ~glucose_gate(gp_conditions)
        /\ Len(day_data.Systolic) = 4 /\ Len(day_data.Diastolic) = 4
        /\ Len(day_data.Systolic_Type) = 4 /\ Len(day_data.Diastolic_Type) = 4
        /\ Len(day_data.BP_Time) = 4 /\ Len(day_data.Glucose) = 4
        /\ Len(day_data.Glucose_Measurement_Type) = 4
        /\ Len(day_data.Glucose_Range) = 4 /\ Len(day_data.Glucose_Time) = 4
        /\ \A k \in 1..4 :
              IF k <= gp_bp_num_readings
              THEN /\ day_data.Systolic_Type[k] # ""
                   /\ day_data.Diastolic_Type[k] # ""
                   /\ day_data.BP_Time[k] # <<>>
              ELSE /\ day_data.Systolic[k] = 0 /\ day_data.Diastolic[k] = 0
                   /\ day_data.Systolic_Type[k] = ""
                   /\ day_data.Diastolic_Type[k] = ""
                   /\ day_data.BP_Time[k] = <<>>
        /\ \A k \in 1..4 :
              IF k <= gp_glucose_num_readings
              THEN /\ day_data.Glucose[k] # 0
                   /\ day_data.Glucose_Measurement_Type[k] # ""
                   /\ day_data.Glucose_Range[k] # ""
                   /\ day_data.Glucose_Time[k] # <<>>
              ELSE /\ day_data.Glucose[k] = 0
                   /\ day_data.Glucose_Measurement_Type[k] = ""
                   /\ day_data.Glucose_Range[k] = ""
                   /\ day_data.Glucose_Time[k] = <<>>

\* C11 witness: a day with 3 blood-pressure readings and 1 glucose reading:
\* the fourth blood-pressure slot and glucose slots 2..4 are padding.
C11_Witness ==
    /\ gp_day >= 1
    /\ gp_bp_num_readings = 3 /\ gp_glucose_num_readings = 1
    /\ day_data.Systolic = <<130, 130, 130, 0>>
    /\ day_data.BP_Time[3] # <<>> /\ day_data.BP_Time[4] = <<>>
    /\ day_data.Glucose = <<61, 0, 0, 0>>
    /\ day_data.Glucose_Time = << << "0", "7", ":", "0", "5" >>, <<>>, <<>>, <<>> >>

\* C12: after a call of assign_medications_by_conditions the caller's catalog
\* list holds the same entries in the same order as before the call (it is
\* still the catalog as parsed).
C12_CatalogUntouched ==
    med_pc = "done" => ALL_MEDS_WITH_DOSAGES = parsed_catalog

\* The number a decimal digit character stands for, and the hour and minute a
\* stored "HH:MM" string reads as.
C13_Digit(c) == CHOOSE n \in 0..9 : Digits[n + 1] = c

C13_Hour(t) == C13_Digit(t[1]) * 10 + C13_Digit(t[2])

C13_Minute(t) == C13_Digit(t[4]) * 10 + C13_Digit(t[5])

\* t is a valid clock time between lo_hour:00 and hi_hour:hi_minute.
C13_Within(t, lo_hour, hi_hour, hi_minute) ==
    /\ Len(t) = 5 /\ t[3] = ":"
    /\ C13_Hour(t) \in 0..23 /\ C13_Minute(t) \in 0..59
    /\ C13_Hour(t) * 60 + C13_Minute(t) >= lo_hour * 60
    /\ C13_Hour(t) * 60 + C13_Minute(t) <= hi_hour * 60 + hi_minute

\* C13: every meal time of a daily record is a valid clock time inside the
\* meal's window: breakfast 06:00-11:00, lunch 11:00-15:00, dinner
\* 16:00-22:00, late night snack 22:00-23:59.
C13_MealWindows ==
    /\ breakfast_time # <<>> => C13_Within(breakfast_time, 6, 11, 0)
    /\ lunch_time # <<>> => C13_Within(lunch_time, 11, 15, 0)
    /\ dinner_time # <<>> => C13_Within(dinner_time, 16, 22, 0)
    /\ late_snack_time # <<>> => C13_Within(late_snack_time, 22, 23, 59)

\* What the claim C14 says of every state of a call: at most 50 candidates
\* are drawn per reading, one timestamp is appended per finished reading (the
\* candidate that passed the check as soon as one passes, the last candidate
\* drawn once all 50 failed), and the returned list has exactly 4 entries of
\* which exactly the first num_readings are non-empty.
C14_Shape ==
    /\ attempts \in 0..max_attempts
    /\ \A k \in 1..Len(ts_drawn) : ts_drawn[k] <= 50
    /\ ts_pc \in {"for", "while"} =>
          /\ Len(ts_timestamps) = ts_i
          /\ ts_i <= ts_num_readings
    /\ ts_pc = "while" => ts_drawn[ts_i + 1] = attempts
    /\ Len(ts_via) = ts_i
    /\ \A k \in 1..ts_i :
          /\ ts_timestamps[k] # <<>>
          /\ ts_drawn[k] >= 1
          /\ ts_via[k] = "fallback" => ts_drawn[k] = 50
    /\ (ts_pc = "for" /\ ts_i >= 1) =>
          /\ ts_timestamps[ts_i] = FormatTime(ts_hour, ts_minute)
          /\ ts_via[ts_i] = "check" =>
                /\ used_times[Len(used_times)] = ts_hour * 60 + ts_minute
                /\ valid_time(ts_hour * 60 + ts_minute,
                              SubSeq(used_times, 1, Len(used_times) - 1))
          /\ ts_via[ts_i] = "fallback" =>
                ~valid_time(ts_hour * 60 + ts_minute, used_times)
    /\ ts_pc = "done" =>
          /\ Len(ts_timestamps) = 4
          /\ ts_i = ts_num_readings
          /\ \A k \in 1..4 : (ts_timestamps[k] # <<>>) <=> (k <= ts_num_readings)
          /\ ts_timestamps \in TimestampResults(ts_num_readings, CandidateTimes)

\* C14: for every requested count the call draws at most 50 candidates per
\* reading and appends exactly one timestamp for it (the first candidate that
\* passes the spacing check, or the last one drawn when all 50 fail), and it
\* always terminates, returning exactly 4 entries of which exactly the first
\* num_readings are non-empty.
C14_BoundedAndTerminates == []C14_Shape /\ <>(ts_pc = "done")

\* C14 witness: a call for 3 readings returned after the second reading used
\* up its 50 attempts and took its last candidate.
C14_Witness ==
    /\ ts_pc = "done" /\ ts_num_readings = 3
    /\ ts_drawn[2] = 50
    /\ ts_via = << "check", "fallback", "check" >>
    /\ ts_timestamps[4] = <<>> /\ ts_timestamps[3] # <<>>

\* The conditions that permit a medication category, as the claim C15 lists
\* them.
C15_Permitted(category, conds) ==
    CASE category = "Heart health and hypertension" ->
            InSeq("Hypertension", conds) \/ InSeq("Ischemic heart disease", conds)
      [] category = "Diabetes (oral or injectable)" -> InSeq("Diabetes", conds)
      [] category = "Chronic pain and musculoskeletal" ->
            InSeq("Osteoarthritis", conds) \/ InSeq("Osteoporosis", conds)
      [] category = "Mental health (mood and anxiety)" ->
            InSeq("Mood and/or anxiety disorder", conds)
      [] category = "Other" ->
            InSeq("COPD", conds) \/ InSeq("Asthma", conds) \/ InSeq("Cancer", conds)
      [] category = "Vitamins and supplements" -> TRUE

\* C15: every medication the catalog pass assigns has a category the
\* patient's conditions permit; and for a patient with a respiratory
\* condition and Cancer an 'Other' medication is decided by the respiratory
\* rule (assigned only on a draw below 0.6), never by the cancer rule (a draw
\* below 0.7).
C15_CategoryPermitted ==
    /\ med_pc \in {"default", "done"} =>
          \A k \in 1..Len(pass_assigned) :
             C15_Permitted(pass_assigned[k][3], med_conditions)
    /\ (med_pc = "pass"
        /\ (InSeq("COPD", med_conditions) \/ InSeq("Asthma", med_conditions))
        /\ InSeq("Cancer", med_conditions)) =>
          \A k \in 1..Len(ALL_MEDS_WITH_DOSAGES) :
             ALL_MEDS_WITH_DOSAGES[k][3] = "Other" =>
                \A draws \in [1..Len(ALL_MEDS_WITH_DOSAGES) -> PassDraws] :
                   draws[k].p >= 600 =>
                      ~InSeq(ALL_MEDS_WITH_DOSAGES[k],
                             catalog_pass(med_conditions, ALL_MEDS_WITH_DOSAGES, draws))

\* C15 witness: a patient with COPD and Cancer whose pass assigned an 'Other'
\* medication and a vitamin.
C15_Witness ==
    /\ med_pc = "done"
    /\ med_conditions = << "Cancer", "COPD" >>
    /\ Len(pass_assigned) = 2
    /\ \E k \in 1..2 : pass_assigned[k][3] = "Other"
    /\ \E k \in 1..2 : pass_assigned[k][3] = "Vitamins and supplements"

\* The per-patient files of all patients of the run are in place.
C16_AllPatientFiles ==
    /\ Len(patient_files) = LastPatient
    /\ \A f \in 1..LastPatient :
          /\ patient_files[f].Patient = Format03d(f)
          /\ Len(patient_files[f].rows) = Len(date_range)

\* A step taken after save_csv_with_retry was called leaves the per-patient
\* files as they are.
C16_FilesKept ==
    (main_pc \in {"save", "report", "done"}) => (patient_files' = patient_files)

\* C16: the combined file write is attempted only after the per-patient
\* files of all patients have been written; from the call of
\* save_csv_with_retry on no per-patient file changes; and when the save
\* gives up (returns False) the script goes on to its closing message with
\* every per-patient file in place.
C16_WriteOrder ==
    /\ [](((main_pc \in {"save", "report", "done"}) \/ save_log # <<>>)
             => C16_AllPatientFiles)
    /\ [](success_public = "False" =>
             /\ main_pc \in {"report", "done"}
             /\ combined_file = <<>>
             /\ C16_AllPatientFiles)
    /\ [](main_pc = "report" => ENABLED Report)
    /\ [][C16_FilesKept]_vars

\* C16 witness: the run ended after the save failed on an error other than a
\* permission error, with all per-patient files written and no combined file.
C16_Witness ==
    /\ main_pc = "done"
    /\ success_public = "False"
    /\ save_log = << "Exception" >>
    /\ Len(patient_files) = LastPatient
    /\ patient_files[LastPatient].Patient = Format03d(LastPatient)
    /\ combined_file = <<>>

\* C17 as stated: when the ten draws yield zero or one conditions the final
\* list has 2 members and is fully determined by the sampled list: every
\* final list the augmentation can produce from it is the one returned.
C17_Deterministic ==
    (ac_pc = "done" /\ Len(sampled) <= 1) =>
        /\ Len(conditions) = 2
        /\ \A other \in Augment(sampled) : other = conditions

\* C17 as amended: when the ten draws yield zero or one conditions the list
\* is augmented by random choice to exactly 2 distinct members, the sampled
\* condition staying first: from zero, two distinct members of the
\* four-condition list in either order; from one, one member of the
\* six-condition list other than the condition present.  With two or more
\* sampled conditions the list is returned as sampled.
C17_RandomAugment ==
    ac_pc = "done" =>
        /\ Len(sampled) = 0 =>
              /\ Len(conditions) = 2
              /\ conditions[1] # conditions[2]
              /\ InSeq(conditions[1], zero_pool) /\ InSeq(conditions[2], zero_pool)
        /\ Len(sampled) = 1 =>
              /\ Len(conditions) = 2
              /\ conditions[1] = sampled[1]
              /\ conditions[2] # sampled[1]
              /\ InSeq(conditions[2], additional_conditions)
        /\ Len(sampled) >= 2 => conditions = sampled

\* C17 witness: nothing sampled, and the two conditions added are not the
\* first two of any preference order of the list, nor in its order.
C17_Witness ==
    /\ ac_pc = "done"
    /\ sampled = <<>>
    /\ conditions = << "Osteoporosis", "Diabetes" >>

\* The catalog format as the claim C18 describes it: a name line is a line
\* with text and without a colon that is neither the 'Medications' header nor
\* a '===...===' delimiter; a block runs from its name line to the line
\* before the next name line (or to the end of the file).
C18_IsName(l) ==
    LET text == strip(l)
    IN  /\ text # <<>> /\ ~InSeq(":", text)
        /\ text # Str_Medications
        /\ ~(startswith(text, Str_Delimiter) /\ endswith(text, Str_Delimiter))

C18_BlockEnd(file, k) ==
    LET later == { n \in (k + 1)..Len(file) : C18_IsName(file[n]) }
    IN  IF later = {} THEN Len(file)
        ELSE (CHOOSE n \in later : \A m \in later : n <= m) - 1

\* The value the block of name line k gives for a key ("Type:", ...): the
\* text after the key on the block's last line with that key, blanks
\* stripped; empty when the block has no such line.
C18_Field(file, k, key) ==
    LET own == { n \in (k + 1)..C18_BlockEnd(file, k) :
                   startswith(strip(file[n]), key) }
    IN  IF own = {} THEN <<>>
        ELSE LET n    == CHOOSE n \in own : \A m \in own : m <= n
                 text == strip(file[n])
             IN  strip(SubSeq(text, Len(key) + 1, Len(text)))

\* One entry per block with a non-empty Type, Category and Dose, in file
\* order, from line k on.
RECURSIVE C18_EntriesFrom(_, _)
C18_EntriesFrom(file, k) ==
    IF k > Len(file) THEN <<>>
    ELSE LET type     == C18_Field(file, k, Str_Type)
             category == C18_Field(file, k, Str_Category)
             dose     == C18_Field(file, k, Str_Dose)
         IN  (IF C18_IsName(file[k]) /\ type # <<>> /\ category # <<>>
                 /\ dose # <<>>
              THEN << << strip(file[k]), type, category, dose >> >>
              ELSE <<>>)
             \o C18_EntriesFrom(file, k + 1)

C19_PopulatedSlots ==
    ex_pc = "done" =>
        /\ \A k \in 1..5 :
              (exercise_data.Exercise_Type[k] # "") <=> (k <= num_exercises)
        /\ \A k \in 1..5 :
              exercise_data.Exercise_Type[k] # "" =>
                 exercise_data.Exercise_Minutes[k] >= 1
        /\ \A a, b \in 1..num_exercises :
              exercise_data.Exercise_Type[a] = exercise_data.Exercise_Type[b]
                 => a = b
        /\ \A k \in 1..5 :
              exercise_data.Exercise_Category[k] = exercise_data.Exercise_Type[k]

\* The minutes since midnight a stored "HH:MM" timestamp reads as.
C20_Minutes(t) ==
    LET digit(c) == CHOOSE n \in 0..9 : Digits[n + 1] = c
    IN  (digit(t[1]) * 10 + digit(t[2])) * 60 + digit(t[4]) * 10 + digit(t[5])

\* The distance of two times of day on the 24-hour circle, in minutes.
C20_CircleDistance(a, b) ==
    LET diff == IF a >= b THEN a - b ELSE b - a
    IN  IF diff <= 24 * 60 - diff THEN diff ELSE 24 * 60 - diff

\* C20: every timestamp accepted by the spacing check is at least 60 minutes
\* away, on the 24-hour circle, from every timestamp produced before it for
\* that day, those taken through the 50-attempt fallback included.
C20_AcceptedSpaced ==
    \A k \in 1..Len(ts_via) :
        ts_via[k] = "check" =>
            \A j \in 1..(k - 1) :
                C20_CircleDistance(C20_Minutes(ts_timestamps[k]),
                                   C20_Minutes(ts_timestamps[j])) >= 60

=============================================================================
